---- MODULE Spec2Model ----
(***************************************************************************)
(* A model of the add-in scaffolding tool (src/lib/index.js): the registry *)
(* parser, the token substitution, the destination resolver and the apply  *)
(* and delete pipelines over a small filesystem.                           *)
(*                                                                         *)
(* JavaScript strings are TLA+ strings; a character is a string of length  *)
(* one, read with SubSeq.  The JavaScript value null is the string Null.   *)
(* The target platform is POSIX (process.platform is not 'win32').        *)
(***************************************************************************)
EXTENDS Integers, Sequences, FiniteSets, TLC

VARIABLES
    \* the process-wide options ("Global state")
    silent, forceApproval, preserve, outDir, projectName, replaceTokens,
    \* the disk: files maps a path to its content, dirs is the set of directories
    files, dirs,
    \* the identifiers handed to applyGists and deleteGists
    gistAliases,
    \* the call in progress: its position, its locals
    pc, resolvedAliases, idx, callName, item, allResolvedFiles,
    \* the disk and the options when the call started, what the call did so
    \* far, the finished calls
    files0, dirs0, options0, trace, history,
    \* the registry parser: a document (its lines) and the records parsed from it
    pDoc, pLinks, pDone,
    \* token substitution: a text, a project name, the results of the passes
    sText, sName, sOut,
    \* JSON patch: the disk of a run of patches, the patch documents, the outcomes
    jFiles, jPatches, jOut

optionVars == <<silent, forceApproval, preserve, outDir, projectName>>

\* The options as they stand.
Options == <<silent, forceApproval, preserve, outDir, projectName, replaceTokens>>

diskVars == <<files, dirs>>

callVars ==
    <<gistAliases, pc, resolvedAliases, idx, callName, item, allResolvedFiles, files0, dirs0, options0, trace,
      history>>

parseVars == <<pDoc, pLinks, pDone>>

substVars == <<sText, sName, sOut>>

patchVars == <<jFiles, jPatches, jOut>>

vars == <<optionVars, replaceTokens, diskVars, callVars, parseVars, substVars, patchVars>>

---------------------------------------------------------------------------
(* Strings *)

Null == "<null>"

At(s, i) == SubSeq(s, i, i)

StartsWithAt(s, p, i) == i + Len(p) - 1 <= Len(s) /\ SubSeq(s, i, i + Len(p) - 1) = p

StartsWith(s, p) == StartsWithAt(s, p, 1)

EndsWith(s, p) == Len(p) <= Len(s) /\ SubSeq(s, Len(s) - Len(p) + 1, Len(s)) = p

Includes(s, p) == \E i \in 1..(Len(s) + 1) : StartsWithAt(s, p, i)

\* String.prototype.indexOf(p, from), 1-based; 0 when there is no match.
IndexOfFrom(s, p, from) ==
    IF \E i \in from..(Len(s) + 1) : StartsWithAt(s, p, i)
    THEN CHOOSE i \in from..(Len(s) + 1) :
            /\ StartsWithAt(s, p, i)
            /\ \A j \in from..(i - 1) : ~StartsWithAt(s, p, j)
    ELSE 0

UpperLetters == "ABCDEFGHIJKLMNOPQRSTUVWXYZ"
LowerLetters == "abcdefghijklmnopqrstuvwxyz"
Digits == "0123456789"

IsUpperLetter(c) == \E i \in 1..Len(UpperLetters) : At(UpperLetters, i) = c
IsLowerLetter(c) == \E i \in 1..Len(LowerLetters) : At(LowerLetters, i) = c
IsDigit(c) == \E i \in 1..Len(Digits) : At(Digits, i) = c

LetterIndex(alphabet, c) == CHOOSE i \in 1..Len(alphabet) : At(alphabet, i) = c

CharToLower(c) == IF IsUpperLetter(c) THEN At(LowerLetters, LetterIndex(UpperLetters, c)) ELSE c
CharToUpper(c) == IF IsLowerLetter(c) THEN At(UpperLetters, LetterIndex(LowerLetters, c)) ELSE c

\* The characters lo..hi of s, each mapped to a letter case (by halves, so
\* that the depth of the recursion stays small on long strings).
RECURSIVE MapChars(_, _, _, _)
MapChars(s, lo, hi, lower) ==
    IF lo > hi THEN ""
    ELSE IF lo = hi THEN (IF lower THEN CharToLower(At(s, lo)) ELSE CharToUpper(At(s, lo)))
    ELSE MapChars(s, lo, (lo + hi) \div 2, lower) \o MapChars(s, (lo + hi) \div 2 + 1, hi, lower)

toLowerCase(s) == MapChars(s, 1, Len(s), TRUE)
toUpperCase(s) == MapChars(s, 1, Len(s), FALSE)

IsSpace(c) == c = " " \/ c = "\t" \/ c = "\n" \/ c = "\r"

TrimStart(s) ==
    IF \A i \in 1..Len(s) : IsSpace(At(s, i)) THEN ""
    ELSE SubSeq(s, CHOOSE i \in 1..Len(s) :
                      ~IsSpace(At(s, i)) /\ \A j \in 1..(i - 1) : IsSpace(At(s, j)),
                Len(s))

TrimEnd(s) ==
    IF \A i \in 1..Len(s) : IsSpace(At(s, i)) THEN ""
    ELSE SubSeq(s, 1, CHOOSE i \in 1..Len(s) :
                         ~IsSpace(At(s, i)) /\ \A j \in (i + 1)..Len(s) : IsSpace(At(s, j)))

trim(s) == TrimEnd(TrimStart(s))

\* The backtick character (a string literal cannot hold one alone).
Backtick == SubSeq("`'", 1, 1)

\* The replacement patterns of String.prototype.replace: $$, $&, $(backtick) and $(quote).
RECURSIVE ExpandReplacement(_, _, _, _, _)
ExpandReplacement(r, i, matched, before, after) ==
    IF i > Len(r) THEN ""
    ELSE IF StartsWithAt(r, "$$", i) THEN "$" \o ExpandReplacement(r, i + 2, matched, before, after)
    ELSE IF StartsWithAt(r, "$&", i) THEN matched \o ExpandReplacement(r, i + 2, matched, before, after)
    ELSE IF StartsWithAt(r, "$" \o Backtick, i) THEN before \o ExpandReplacement(r, i + 2, matched, before, after)
    ELSE IF StartsWithAt(r, "$'", i) THEN after \o ExpandReplacement(r, i + 2, matched, before, after)
    ELSE At(r, i) \o ExpandReplacement(r, i + 1, matched, before, after)

\* String.prototype.replace for a literal pattern p, from position `from` with
\* the next match at i (0: none): that match replaced, and with the g flag
\* (all) every later one.
RECURSIVE ReplaceAt(_, _, _, _, _, _)
ReplaceAt(s, p, r, from, i, all) ==
    IF i = 0 \/ i > Len(s) THEN SubSeq(s, from, Len(s))
    ELSE SubSeq(s, from, i - 1)
            \o ExpandReplacement(r, 1, p, SubSeq(s, 1, i - 1), SubSeq(s, i + Len(p), Len(s)))
            \o (IF all THEN ReplaceAt(s, p, r, i + Len(p), IndexOfFrom(s, p, i + Len(p)), all)
                ELSE SubSeq(s, i + Len(p), Len(s)))

\* s.replace(p, r): the first match only.
ReplaceFirst(s, p, r) == ReplaceAt(s, p, r, 1, IndexOfFrom(s, p, 1), FALSE)

\* s.replace(/p/g, r): every match, left to right.
ReplaceAll(s, p, r) == ReplaceAt(s, p, r, 1, IndexOfFrom(s, p, 1), TRUE)

\* s.split(sep) from position start, the next separator being at i (0: none);
\* sep is a non-empty literal.
RECURSIVE SplitAt(_, _, _, _)
SplitAt(s, sep, start, i) ==
    IF i = 0 \/ i > Len(s) THEN <<SubSeq(s, start, Len(s))>>
    ELSE <<SubSeq(s, start, i - 1)>> \o SplitAt(s, sep, i + Len(sep), IndexOfFrom(s, sep, i + Len(sep)))

Split(s, sep) == SplitAt(s, sep, 1, IndexOfFrom(s, sep, 1))

RECURSIVE Join(_, _)
Join(parts, sep) ==
    IF Len(parts) = 0 THEN ""
    ELSE IF Len(parts) = 1 THEN parts[1]
    ELSE parts[1] \o sep \o Join(Tail(parts), sep)

---------------------------------------------------------------------------
(* Token substitution *)

\* str.replace(/([a-z])([A-Z])/g, '$1-$2').toLowerCase()
\* A match takes a lowercase and an uppercase letter, so matches never overlap
\* and each lowercase letter followed by an uppercase one gets a hyphen.
RECURSIVE KebabFrom(_, _)
KebabFrom(s, i) ==
    IF i > Len(s) THEN ""
    ELSE IF i < Len(s) /\ IsLowerLetter(At(s, i)) /\ IsUpperLetter(At(s, i + 1))
         THEN At(s, i) \o "-" \o At(s, i + 1) \o KebabFrom(s, i + 2)
         ELSE At(s, i) \o KebabFrom(s, i + 1)

camelToKebab(str) == IF str = Null THEN "" ELSE toLowerCase(KebabFrom(str, 1))

\* The loop of splitPascalCase; i is the 1-based position (the code's i + 1).
RECURSIVE SplitPascalFrom(_, _)
SplitPascalFrom(input, i) ==
    IF i > Len(input) THEN ""
    ELSE (IF /\ IsUpperLetter(At(input, i))
             /\ \/ (i - 1 > 1 /\ At(input, i - 1) # CharToUpper(At(input, i - 1)))
                \/ (i < Len(input) /\ At(input, i + 1) # CharToUpper(At(input, i + 1)))
          THEN " " ELSE "")
         \o At(input, i) \o SplitPascalFrom(input, i + 1)

splitPascalCase(input) == IF input = "" \/ input = Null THEN input ELSE trim(SplitPascalFrom(input, 1))

SepChars == <<" ", "-", "+", "_">>

IsSepChar(c) == \E k \in 1..Len(SepChars) : SepChars[k] = c

\* name.split(/[ \-\+_]/)
RECURSIVE SplitOnSeps(_, _, _)
SplitOnSeps(s, i, start) ==
    IF i > Len(s) THEN <<SubSeq(s, start, Len(s))>>
    ELSE IF IsSepChar(At(s, i))
         THEN <<SubSeq(s, start, i - 1)>> \o SplitOnSeps(s, i + 1, i + 1)
         ELSE SplitOnSeps(s, i + 1, start)

RECURSIVE TitleCaseJoin(_)
TitleCaseJoin(words) ==
    IF Len(words) = 0 THEN ""
    ELSE (IF words[1] = "" THEN ""
          ELSE CharToUpper(At(words[1], 1)) \o SubSeq(words[1], 2, Len(words[1])))
         \o TitleCaseJoin(Tail(words))

sanitizeProjectName(name) ==
    IF name = "" \/ name = Null THEN Null
    ELSE IF ~(\E i \in 1..Len(name) : IsSepChar(At(name, i))) THEN name
    ELSE TitleCaseJoin(SplitOnSeps(name, 1, 1))

\* result.split(term).join(replacement) for each pair, in order.
RECURSIVE ApplyReplaceTokens(_, _)
ApplyReplaceTokens(s, tokens) ==
    IF Len(tokens) = 0 THEN s
    ELSE ApplyReplaceTokens(Join(Split(s, tokens[1][1]), tokens[1][2]), Tail(tokens))

IsWin32 == FALSE

\* The six replacements without the g flag: the first match only.
ReplaceFormsOnce(input, projName, condensed) ==
    ReplaceFirst(ReplaceFirst(ReplaceFirst(ReplaceFirst(ReplaceFirst(ReplaceFirst(input,
        "My_App", projName),
        "MyApp", condensed),
        "My App", splitPascalCase(condensed)),
        "my-app", camelToKebab(condensed)),
        "myapp", toLowerCase(condensed)),
        "my_app", toLowerCase(projName))

\* The six replacements of the placeholder spellings, in the order of the code.
ReplaceForms(input, projName, condensed) ==
    ReplaceAll(ReplaceAll(ReplaceAll(ReplaceAll(ReplaceAll(ReplaceAll(input,
        "My_App", projName),
        "MyApp", condensed),
        "My App", splitPascalCase(condensed)),
        "my-app", camelToKebab(condensed)),
        "myapp", toLowerCase(condensed)),
        "my_app", toLowerCase(projName))

\* "Remove carriage returns on non-Windows"
StripCR(s) == IF ~IsWin32 THEN ReplaceAll(s, "\r", "") ELSE s

replaceMyAppWith(input, projName, tokens) ==
    IF input = "" \/ input = Null \/ projName = "" \/ projName = Null THEN input
    ELSE ApplyReplaceTokens(StripCR(ReplaceForms(input, projName, ReplaceAll(projName, "_", ""))), tokens)

replaceMyApp(input, projName) == replaceMyAppWith(input, projName, replaceTokens)

---------------------------------------------------------------------------
(* Registry parser *)

Undefined == "<undefined>"

IsWordChar(c) == IsUpperLetter(c) \/ IsLowerLetter(c) \/ IsDigit(c) \/ c = "_"

\* The end (exclusive) of the longest run from i of characters other than stop.
RunUntil(s, i, stop) ==
    CHOOSE e \in i..(Len(s) + 1) :
        /\ e > Len(s) \/ At(s, e) = stop
        /\ \A j \in i..(e - 1) : At(s, j) # stop

\* /- \[([^\]]+)\]\(([^)]+)\)/ tried at position i, the name ending before j
\* and the url before k: the match, or ok = FALSE.
NameMatchAt(s, i, j, k) ==
    IF /\ StartsWithAt(s, "- [", i)
       /\ j > i + 3
       /\ StartsWithAt(s, "](", j)
       /\ k > j + 2
       /\ k <= Len(s)
    THEN [ok |-> TRUE, name |-> SubSeq(s, i + 3, j - 1), url |-> SubSeq(s, j + 2, k - 1),
          length |-> k - i + 1]
    ELSE [ok |-> FALSE, name |-> "", url |-> "", length |-> 0]

\* The expression tried at position i: [^\]]+ and [^)]+ take the longest runs.
NameMatchFrom(s, i) ==
    NameMatchAt(s, i, RunUntil(s, i + 3, "]"), RunUntil(s, RunUntil(s, i + 3, "]") + 2, ")"))

\* trimmed.match(...): the match at the leftmost position where there is one.
NameMatch(s) ==
    NameMatchFrom(s, CHOOSE i \in 1..(Len(s) + 1) :
                        /\ i > Len(s) \/ NameMatchFrom(s, i).ok
                        /\ \A h \in 1..(i - 1) : ~NameMatchFrom(s, h).ok)

\* The end (exclusive) of the longest run of word characters from i.
WordRunEnd(s, i) ==
    CHOOSE e \in i..(Len(s) + 1) :
        /\ e > Len(s) \/ ~IsWordChar(At(s, e))
        /\ \A j \in i..(e - 1) : IsWordChar(At(s, j))

IsBareChar(c) == ~IsSpace(c) /\ c # "," /\ c # "}"

\* The end (exclusive) of the longest run from i of [^\s,}].
BareRunEnd(s, i) ==
    CHOOSE e \in i..(Len(s) + 1) :
        /\ e > Len(s) \/ ~IsBareChar(At(s, e))
        /\ \A j \in i..(e - 1) : IsBareChar(At(s, j))

\* (?:"([^"]+)"|'([^']+)'|([^\s,}]+)) tried at position v.
ModValue(s, from, to, next) == [ok |-> TRUE, value |-> SubSeq(s, from, to), next |-> next]

\* The alternatives at v, given where the runs after a quote (dq, sq) and the
\* bare run end.
ModValueOf(s, v, dq, sq, bare) ==
    IF v <= Len(s) /\ At(s, v) = "\"" /\ dq > v + 1 /\ dq <= Len(s) THEN ModValue(s, v + 1, dq - 1, dq + 1)
    ELSE IF v <= Len(s) /\ At(s, v) = "'" /\ sq > v + 1 /\ sq <= Len(s) THEN ModValue(s, v + 1, sq - 1, sq + 1)
    ELSE IF bare > v THEN ModValue(s, v, bare - 1, bare)
    ELSE [ok |-> FALSE, value |-> "", next |-> v]

ModValueAt(s, v) == ModValueOf(s, v, RunUntil(s, v + 1, "\""), RunUntil(s, v + 1, "'"), BareRunEnd(s, v))

\* modStr.matchAll(/(\w+):(?:...)/g): the <<key, value>> pairs, in order.
RECURSIVE ModMatches(_, _)
\* A match tried at i, the key running to e and the value read as val.
ModMatchAt(s, i, e, val) ==
    IF e > i /\ e <= Len(s) /\ At(s, e) = ":" /\ val.ok
    THEN <<(<<SubSeq(s, i, e - 1), val.value>>)>> \o ModMatches(s, val.next)
    ELSE ModMatches(s, i + 1)

ModKeyAt(s, i, e) == ModMatchAt(s, i, e, ModValueAt(s, e + 1))

ModMatches(s, i) == IF i > Len(s) THEN <<>> ELSE ModKeyAt(s, i, WordRunEnd(s, i))

\* modifiers[key] after the assignments in order: the last value of key, or Undefined.
RECURSIVE ModifierOf(_, _)
ModifierOf(pairs, key) ==
    IF Len(pairs) = 0 THEN Undefined
    ELSE IF pairs[Len(pairs)][1] = key THEN pairs[Len(pairs)][2]
    ELSE ModifierOf(SubSeq(pairs, 1, Len(pairs) - 1), key)

TrimEach(parts) == [k \in 1..Len(parts) |-> trim(parts[k])]

\* tagStr.split(',').map(t => t.trim()).filter(t => t)
RECURSIVE TrimNonEmpty(_)
TrimNonEmpty(parts) ==
    IF Len(parts) = 0 THEN <<>>
    ELSE (IF trim(parts[1]) = "" THEN <<>> ELSE <<trim(parts[1])>>) \o TrimNonEmpty(Tail(parts))

NoLink == [isLink |-> FALSE, name |-> "", url |-> "", user |-> "", to |-> Null,
           description |-> "", tagsNull |-> TRUE, tags |-> <<>>, gistId |-> Null,
           repo |-> Null, modifiers |-> <<>>]

\* The user after "Extract user from URL" and "Normalize user".
Normalize(user) == IF user = "gistlyn" \/ user = "mythz" THEN "ServiceStack" ELSE user

\* url.substring('https://'.length).split('/')[1]
SecondOf(parts) == IF Len(parts) >= 2 THEN parts[2] ELSE Undefined

NormalizedUser(url) ==
    Normalize(IF StartsWith(url, "https://") THEN SecondOf(Split(SubSeq(url, 9, Len(url)), "/")) ELSE "")

\* parts[1]?.split('/')[0]
RepoOf(parts) == IF Len(parts) >= 2 THEN Split(parts[2], "/")[1] ELSE Undefined

\* The user after "Parse gist ID or repo info".
LinkUser(url) ==
    IF StartsWith(url, "https://gist.github.com") THEN NormalizedUser(url)
    ELSE IF StartsWith(url, "https://github.com/")
    THEN Split(SubSeq(url, Len("https://github.com/") + 1, Len(url)), "/")[1]
    ELSE NormalizedUser(url)

\* The record returned at the end of parseGistLink.
LinkRecord(nameMatch, modifiers, tagsNull, tags, description) ==
    [isLink |-> TRUE,
     name |-> nameMatch.name,
     url |-> nameMatch.url,
     user |-> LinkUser(nameMatch.url),
     to |-> IF ModifierOf(modifiers, "to") = Undefined \/ ModifierOf(modifiers, "to") = ""
            THEN Null ELSE ModifierOf(modifiers, "to"),
     description |-> description,
     tagsNull |-> tagsNull,
     tags |-> tags,
     gistId |-> IF StartsWith(nameMatch.url, "https://gist.github.com")
                THEN Split(nameMatch.url, "/")[Len(Split(nameMatch.url, "/"))]
                ELSE Null,
     repo |-> IF StartsWith(nameMatch.url, "https://gist.github.com")
                 \/ ~StartsWith(nameMatch.url, "https://github.com/")
              THEN Null
              ELSE RepoOf(Split(SubSeq(nameMatch.url, Len("https://github.com/") + 1,
                                       Len(nameMatch.url)), "/")),
     modifiers |-> modifiers]

\* "Parse tags like `tag1,tag2`": endTick is the position of the closing
\* backtick (0: none).
LinkWithTags(nameMatch, modifiers, remaining, endTick) ==
    IF StartsWith(remaining, Backtick) /\ endTick > 1
    THEN LinkRecord(nameMatch, modifiers, FALSE,
                    TrimNonEmpty(Split(SubSeq(remaining, 2, endTick - 1), ",")),
                    trim(SubSeq(remaining, endTick + 1, Len(remaining))))
    ELSE LinkRecord(nameMatch, modifiers, TRUE, <<>>, remaining)

\* What follows the modifiers, handed to the parsing of the tags.
LinkAfterModifiers(nameMatch, modifiers, remaining) ==
    LinkWithTags(nameMatch, modifiers, remaining, IndexOfFrom(remaining, Backtick, 2))

\* "Parse modifiers like {to:"./"}": endBrace is the position of the first
\* closing brace (0: none).
LinkWithModifiers(nameMatch, remaining, endBrace) ==
    IF StartsWith(remaining, "{") /\ endBrace > 1
    THEN LinkAfterModifiers(nameMatch, ModMatches(SubSeq(remaining, 2, endBrace - 1), 1),
                            trim(SubSeq(remaining, endBrace + 1, Len(remaining))))
    ELSE LinkAfterModifiers(nameMatch, <<>>, remaining)

\* The line after trim(), with the match of its name and url.
LinkOfMatch(trimmed, nameMatch, remaining) ==
    IF ~StartsWith(trimmed, "- [") \/ ~nameMatch.ok THEN NoLink
    ELSE LinkWithModifiers(nameMatch, remaining, IndexOfFrom(remaining, "}", 1))

LinkOfTrimmed(trimmed, nameMatch) ==
    LinkOfMatch(trimmed, nameMatch, trim(SubSeq(trimmed, nameMatch.length + 1, Len(trimmed))))

parseGistLink(line) == LinkOfTrimmed(trim(line), NameMatch(trim(line)))

\* links.push(link): the record is added at the end.
PushFront(links, link) == <<link>> \o links

\* if (link) links.push(link)
PushLink(links, link) == Append(links, link)

\* One iteration of the loop of parseGistLinks.
ParseStep(links, link) == IF link.isLink THEN PushLink(links, link) ELSE links

RECURSIVE ParseLines(_, _, _)
ParseLines(lines, i, links) ==
    IF i > Len(lines) THEN links ELSE ParseLines(lines, i + 1, ParseStep(links, parseGistLink(lines[i])))

parseGistLinks(md) == IF md = "" \/ md = Null THEN <<>> ELSE ParseLines(Split(md, "\n"), 1, <<>>)

---------------------------------------------------------------------------
(* Paths (POSIX) and the filesystem: files maps each file's path to its    *)
(* content, dirs is the set of directories.                                *)

cwd == "/w"

homedir == "/home/u"

RECURSIVE NormalizeSegs(_, _, _)
NormalizeSegs(segs, i, acc) ==
    IF i > Len(segs) THEN acc
    ELSE IF segs[i] = "" \/ segs[i] = "." THEN NormalizeSegs(segs, i + 1, acc)
    ELSE IF segs[i] = ".."
         THEN NormalizeSegs(segs, i + 1, IF Len(acc) = 0 THEN acc ELSE SubSeq(acc, 1, Len(acc) - 1))
    ELSE NormalizeSegs(segs, i + 1, Append(acc, segs[i]))

PathSegs(p) == NormalizeSegs(Split(p, "/"), 1, <<>>)

PathOf(segs) == "/" \o Join(segs, "/")

\* path.resolve(base, file)
pathResolve(base, file) ==
    IF StartsWith(file, "/") THEN PathOf(PathSegs(file))
    ELSE IF StartsWith(base, "/") THEN PathOf(PathSegs(base \o "/" \o file))
    ELSE PathOf(PathSegs(cwd \o "/" \o base \o "/" \o file))

AllButLast(segs) == SubSeq(segs, 1, Len(segs) - 1)

LastOf(segs) == IF Len(segs) = 0 THEN "" ELSE segs[Len(segs)]

\* path.dirname of an absolute path
pathDirname(p) == PathOf(AllButLast(PathSegs(p)))

\* path.basename of an absolute path
pathBasename(p) == LastOf(PathSegs(p))

IsPrefixSeq(a, b) == Len(a) <= Len(b) /\ SubSeq(b, 1, Len(a)) = a

\* p is dir itself or lies below it
InsideDir(p, dir) == IsPrefixSeq(PathSegs(dir), PathSegs(p))

PrefixPaths(segs) == {PathOf(SubSeq(segs, 1, k)) : k \in 0..Len(segs)}

\* A directory and the directories above it.
AncestorsAndSelf(d) == PrefixPaths(PathSegs(d))

\* fs.existsSync
existsSync(fl, ds, p) == pathResolve(cwd, p) \in (DOMAIN fl) \cup ds

\* fs.readdirSync(folder): the paths of the entries of a directory
readdirSync(fl, ds, folder) ==
    {f \in (DOMAIN fl) \cup ds : f # "/" /\ pathDirname(f) = pathResolve(cwd, folder)}

\* osPaths on a POSIX platform: backslashes become slashes
osPaths(filePath) == IF IsWin32 THEN ReplaceAll(filePath, "/", "\\") ELSE ReplaceAll(filePath, "\\", "/")

---------------------------------------------------------------------------
(* Destination resolver *)

HOST_FILES == <<"appsettings.json", "Web.config", "App.config", "Startup.cs", "Program.cs", "*.csproj">>

SkippedDirs == {"node_modules", "bin", "obj"}

FindMaxDepth == 10

\* new RegExp('^' + pattern.replace(/\*/g, '.*') + '$').test(name), for a
\* pattern of literal characters, dots and stars.
RECURSIVE GlobMatch(_, _, _, _)
GlobMatch(pat, i, name, j) ==
    IF i > Len(pat) THEN j > Len(name)
    ELSE IF At(pat, i) = "*"
         THEN GlobMatch(pat, i + 1, name, j) \/ (j <= Len(name) /\ GlobMatch(pat, i, name, j + 1))
    ELSE IF At(pat, i) = "."
         THEN j <= Len(name) /\ GlobMatch(pat, i + 1, name, j + 1)
    ELSE j <= Len(name) /\ At(name, j) = At(pat, i) /\ GlobMatch(pat, i + 1, name, j + 1)

NameMatches(name, pattern) ==
    IF Includes(pattern, "*") THEN GlobMatch(pattern, 1, name, 1) ELSE name = pattern

\* The path below a directory of an entry that lies below it, as segments.
RelativeSegs(segs, dirSegs) == SubSeq(segs, Len(dirSegs) + 1, Len(segs))

\* The walk of findFiles and findDirectories reaches the entry `rel` below its root.
WalkReaches(rel) ==
    /\ Len(rel) >= 1
    /\ Len(rel) <= FindMaxDepth
    /\ \A k \in 1..Len(rel) : ~StartsWith(rel[k], ".")
    /\ \A k \in 1..(Len(rel) - 1) : rel[k] \notin SkippedDirs

\* The walk from the directory dirSegs reaches the entry segs.
WalkFinds(segs, dirSegs) ==
    IsPrefixSeq(dirSegs, segs) /\ WalkReaches(RelativeSegs(segs, dirSegs))

FileFound(segs, dirSegs, pattern) ==
    WalkFinds(segs, dirSegs) /\ NameMatches(LastOf(segs), pattern)

\* findFiles(dir, pattern): the matches.  The order of the result is the order
\* of the directory listings; the disks of this model hold at most one match.
findFiles(fl, dir, pattern) == {f \in DOMAIN fl : FileFound(PathSegs(f), PathSegs(dir), pattern)}

DirectoryFound(segs, dirSegs, name) == WalkFinds(segs, dirSegs) /\ LastOf(segs) = name

\* findDirectories(dir, name): the directories of that exact name.
findDirectories(ds, dir, name) == {d \in ds : DirectoryFound(PathSegs(d), PathSegs(dir), name)}

FirstOf(S) == CHOOSE x \in S : TRUE

Resolved(path) == [ok |-> TRUE, path |-> path, err |-> ""]

Thrown(err) == [ok |-> FALSE, path |-> "", err |-> err]

\* return path.dirname(files[0]), or the error thrown when there is no match
DirOfFirst(found, err) == IF found = {} THEN Thrown(err) ELSE Resolved(pathDirname(FirstOf(found)))

HostIsCwd(fl, k) == Resolved(cwd)

\* for (const hostFile of HOST_FILES), from the k-th marker on.
RECURSIVE FindHost(_, _)
FindHost(fl, k) ==
    IF k > Len(HOST_FILES) THEN Thrown("NotFound: host project")
    ELSE IF findFiles(fl, cwd, HOST_FILES[k]) = {} THEN FindHost(fl, k + 1)
    ELSE DirOfFirst(findFiles(fl, cwd, HOST_FILES[k]), "")

\* return dirs[0], or the error thrown when there is no match
FirstDir(found) == IF found = {} THEN Thrown("NotFound: directory") ELSE Resolved(FirstOf(found))

\* The check of resolveBasePath for a path traversal in the location.
NeverTraversal(to) == FALSE

\* if (to.includes('..'))
IsTraversal(to) == Includes(to, "..")

resolveBasePath(fl, ds, to) ==
    IF to = "." \/ to = "" \/ to = Null THEN Resolved(cwd)
    ELSE IF IsTraversal(to) THEN Thrown("Invalid location")
    ELSE IF StartsWith(to, "/")
         THEN (IF IsWin32 THEN Thrown("Cannot write on Windows") ELSE Resolved(to))
    ELSE IF Includes(to, ":\\")
         THEN (IF ~IsWin32 THEN Thrown("Cannot write") ELSE Resolved(to))
    ELSE IF StartsWith(to, "$HOST") THEN FindHost(fl, 1)
    ELSE IF StartsWith(to, "$HOME") THEN Resolved(ReplaceFirst(to, "$HOME", homedir))
    ELSE IF StartsWith(to, "$") THEN Thrown("Unknown location")
    ELSE IF EndsWith(to, "/") THEN FirstDir(findDirectories(ds, cwd, SubSeq(to, 1, Len(to) - 1)))
    ELSE DirOfFirst(findFiles(fl, cwd, to), "NotFound: file")

\* if (fileName.endsWith('?')) fileName = fileName.slice(0, -1)
StripOptional(fileName) ==
    IF EndsWith(fileName, "?") THEN SubSeq(fileName, 1, Len(fileName) - 1) ELSE fileName

\* The first lines of resolveFilePath: the templated name resolved against the base.
NaiveFilePath(gistFilePath, basePath, projName) ==
    pathResolve(basePath, osPaths(StripOptional(replaceMyApp(osPaths(gistFilePath), projName))))

\* "Handle $HOST gists that write to folders": resolvedPath is the result of
\* the recursive call (its applyTo is '.', so it returns its own first path).
HostFolderPath(fl, ds, resolvedFile, resolvedPath, applyTo, writesToFolder) ==
    IF /\ applyTo = "$HOST"
       /\ writesToFolder
       /\ ~existsSync(fl, ds, pathDirname(resolvedFile))
       /\ existsSync(fl, ds, pathDirname(resolvedPath))
    THEN resolvedPath
    ELSE resolvedFile

resolveFilePath(fl, ds, gistFilePath, basePath, projName, applyTo) ==
    HostFolderPath(fl, ds, NaiveFilePath(gistFilePath, basePath, projName),
                   NaiveFilePath(projName \o "." \o gistFilePath, cwd, projName),
                   applyTo, Includes(gistFilePath, "\\"))

---------------------------------------------------------------------------
(* File contents.  A content is text, raw bytes, or JSON kept parsed: a    *)
(* JSON object is a function from the pointers of its members (sequences   *)
(* of keys) to their values, ObjectMark standing for a nested object; a    *)
(* JSON patch document is its sequence of operations.  The values of the   *)
(* sampled documents are strings.                                          *)

ObjectMark == "{}"

EmptyDoc == (<<>> :> ObjectMark)

Text(s) == [kind |-> "text", text |-> s, doc |-> EmptyDoc, ops |-> <<>>]

Bytes(s) == [kind |-> "bytes", text |-> s, doc |-> EmptyDoc, ops |-> <<>>]

Json(d) == [kind |-> "json", text |-> "", doc |-> d, ops |-> <<>>]

PatchDoc(ops) == [kind |-> "patch", text |-> "", doc |-> EmptyDoc, ops |-> ops]

\* Buffer.from(content, 'base64') on the sampled encodings.
Base64Decode(s) ==
    IF s = "QQ==" THEN "A"
    ELSE IF s = "Qg==" THEN "B"
    ELSE IF s = "TXlBcHA=" THEN "MyApp"
    ELSE ""

\* replaceMyApp on a file's content: on the text, and for a patch document on
\* the strings its serialization holds.
ReplaceInContent(c, projName) ==
    IF c.kind = "text" THEN Text(replaceMyApp(c.text, projName))
    ELSE IF c.kind = "patch"
    THEN PatchDoc([k \in 1..Len(c.ops) |->
                     [op |-> c.ops[k].op,
                      path |-> replaceMyApp(c.ops[k].path, projName),
                      value |-> IF c.ops[k].value = Undefined THEN Undefined
                                ELSE replaceMyApp(c.ops[k].value, projName)]])
    ELSE c

---------------------------------------------------------------------------
(* JSON patch *)

RemoveSubtree(doc, ptr) == [q \in {q \in DOMAIN doc : ~IsPrefixSeq(ptr, q)} |-> doc[q]]

RECURSIVE NonEmpty(_)
NonEmpty(parts) ==
    IF Len(parts) = 0 THEN <<>>
    ELSE (IF parts[1] = "" THEN <<>> ELSE <<parts[1]>>) \o NonEmpty(Tail(parts))

\* The members every object inherits from Object.prototype: key in target
\* holds for them although the document has no such member.
ObjectPrototypeKeys ==
    {"constructor", "__proto__", "hasOwnProperty", "isPrototypeOf", "propertyIsEnumerable",
     "toLocaleString", "toString", "valueOf", "__defineGetter__", "__defineSetter__",
     "__lookupGetter__", "__lookupSetter__"}

\* if (!(key in target)) target[key] = {}
Descend(doc, next) == IF next \in DOMAIN doc THEN doc ELSE (next :> ObjectMark) @@ doc

Navigated(ok, inside, doc, ptr) == [ok |-> ok, inside |-> inside, doc |-> doc, ptr |-> ptr]

\* "Navigate to parent": the document with the missing intermediate objects
\* created, and the pointer of the parent.  The in operator throws on a value
\* that is not an object.  At a key the document lacks and Object.prototype
\* has, target becomes the inherited member: the rest of the operation works
\* on an object outside the document (inside = FALSE).
RECURSIVE NavigateToParent(_, _, _, _)
NavigateToParent(doc, parts, i, ptr) ==
    IF i > Len(parts) - 1 THEN Navigated(TRUE, TRUE, doc, ptr)
    ELSE IF doc[ptr] # ObjectMark THEN Navigated(FALSE, TRUE, doc, ptr)
    ELSE IF Append(ptr, parts[i]) \notin DOMAIN doc /\ parts[i] \in ObjectPrototypeKeys
    THEN Navigated(TRUE, FALSE, doc, ptr)
    ELSE NavigateToParent(Descend(doc, Append(ptr, parts[i])), parts, i + 1, Append(ptr, parts[i]))

OpResult(ok, doc) == [ok |-> ok, doc |-> doc]

\* const lastKey = pathParts[pathParts.length - 1]
LastKey(pathParts) == IF Len(pathParts) = 0 THEN "undefined" ELSE pathParts[Len(pathParts)]

\* target[lastKey] = op.value.  A member set to undefined is left out by
\* JSON.stringify; a string assigned to __proto__ where the object has no
\* member of that name goes to the inherited setter, which ignores it.
Assign(doc, ptr, value) ==
    IF ptr \notin DOMAIN doc /\ ptr[Len(ptr)] = "__proto__" THEN doc
    ELSE IF value = Undefined THEN RemoveSubtree(doc, ptr)
    ELSE (ptr :> value) @@ RemoveSubtree(doc, ptr)

\* switch (op.op) on the member ptr of the object at parent; an assignment to
\* a member of a string does nothing.
ApplyAt(doc, parent, ptr, op) ==
    IF doc[parent] # ObjectMark THEN doc
    ELSE IF op.op \in {"add", "replace"} THEN Assign(doc, ptr, op.value)
    ELSE IF op.op = "remove" THEN RemoveSubtree(doc, ptr)
    ELSE doc

ApplyNavigated(doc, nav, lastKey, op) ==
    IF ~nav.ok THEN OpResult(FALSE, doc)
    ELSE IF ~nav.inside THEN OpResult(TRUE, nav.doc)
    ELSE OpResult(TRUE, ApplyAt(nav.doc, nav.ptr, Append(nav.ptr, lastKey), op))

ApplyParts(doc, pathParts, op) ==
    ApplyNavigated(doc, NavigateToParent(doc, pathParts, 1, <<>>), LastKey(pathParts), op)

\* One operation of the patch applied to the document.
ApplyPatchOp(doc, op) == ApplyParts(doc, NonEmpty(Split(op.path, "/")), op)

\* for (const op of patchJson), from the i-th operation on; r is the outcome so far.
RECURSIVE ApplyPatchOps(_, _, _)
ApplyPatchOps(r, ops, i) ==
    IF i > Len(ops) \/ ~r.ok THEN r ELSE ApplyPatchOps(ApplyPatchOp(r.doc, ops[i]), ops, i + 1)

Patched(ok, fl) == [ok |-> ok, files |-> fl]

\* fs.writeFileSync(targetFile, JSON.stringify(targetJson, null, 2))
WritePatched(fl, targetFile, patched) ==
    IF ~patched.ok THEN Patched(FALSE, fl) ELSE Patched(TRUE, (targetFile :> Json(patched.doc)) @@ fl)

\* The two JSON.parse(fs.readFileSync(...)) and the loop, on the disk fl1 left
\* by the first lines.
PatchExisting(fl, fl1, targetFile, patchFile) ==
    IF targetFile \notin DOMAIN fl1 \/ patchFile \notin DOMAIN fl1 THEN Patched(FALSE, fl)
    ELSE IF fl1[targetFile].kind # "json" \/ fl1[patchFile].kind # "patch" THEN Patched(FALSE, fl1)
    ELSE WritePatched(fl1, targetFile,
                      ApplyPatchOps(OpResult(TRUE, fl1[targetFile].doc), fl1[patchFile].ops, 1))

\* patchJsonFile(targetFile, patchFile): the files afterwards, or ok = FALSE when
\* it throws (a target or a patch that does not parse, a target that is a
\* directory, a failed navigation).
patchJsonFile(fl, ds, targetFile, patchFile) ==
    PatchExisting(fl, IF existsSync(fl, ds, targetFile) THEN fl ELSE (targetFile :> Json(EmptyDoc)) @@ fl,
                  targetFile, patchFile)

---------------------------------------------------------------------------
(* Command sandbox: the lines of an initialization script that are spawned *)

AllowedPrefixes == <<"npm ", "yarn ", "pnpm ", "nuget ", "dotnet ", "flutter ", "dart ", "kamal ">>

IllegalChars == <<"\"", "'", "&", ";", "$", "@", "|", ">">>

StartsWithAny(cmd, prefixes) == \E k \in 1..Len(prefixes) : StartsWith(cmd, prefixes[k])

NoIllegalChars(cmd) == FALSE

\* /["'&;$@|>]/.test(cmd)
HasIllegalChars(cmd) == \E k \in 1..Len(IllegalChars) : Includes(cmd, IllegalChars[k])

\* The "Additional restrictions" on the sub-command of a tool.
SubCommandAllowed(cmd) ==
    /\ StartsWith(cmd, "nuget") => StartsWithAny(cmd, <<"nuget add", "nuget restore", "nuget update">>)
    /\ StartsWith(cmd, "dotnet") =>
          (StartsWithAny(cmd, <<"dotnet add ", "dotnet restore">>) \/ cmd = "dotnet restore")
    /\ StartsWith(cmd, "flutter") => StartsWith(cmd, "flutter create ")
    /\ StartsWith(cmd, "dart") => StartsWithAny(cmd, <<"dart pub add", "dart pub get">>)
    /\ StartsWith(cmd, "kamal") => StartsWith(cmd, "kamal init")

\* Whether the loop over the lines of _init reaches spawnSync for the command.
CommandAllowed(cmd) ==
    /\ ~StartsWith(cmd, "#")
    /\ StartsWithAny(cmd, AllowedPrefixes)
    /\ SubCommandAllowed(cmd)
    /\ ~HasIllegalChars(cmd)

\* const cmd = line.trim()
CommandIsSpawned(line) == CommandAllowed(trim(line))

RECURSIVE ReplaceEach(_, _)
ReplaceEach(args, projName) ==
    IF Len(args) = 0 THEN <<>>
    ELSE <<replaceMyApp(args[1], projName)>> \o ReplaceEach(Tail(args), projName)

ArgvOf(cmdParts, projName) == Join(<<cmdParts[1]>> \o ReplaceEach(Tail(cmdParts), projName), " ")

\* The executable and the arguments handed to spawnSync, joined by spaces.
SpawnedArgv(cmd, projName) == ArgvOf(Split(cmd, " "), ReplaceAll(projName, ".", "_"))

---------------------------------------------------------------------------
(* Events: what a call did, in order.  item is the position of the         *)
(* identifier in the batch, base the base directory resolved for it.       *)

Ev(e, a, d, it, b) == [ev |-> e, arg |-> a, detail |-> d, item |-> it, base |-> b]

SpawnEvent(cmd, projName, it, hostDir) ==
    IF CommandAllowed(cmd) THEN <<Ev("spawn", cmd, SpawnedArgv(cmd, projName), it, hostDir)>> ELSE <<>>

RECURSIVE SpawnEvents(_, _, _, _, _)
SpawnEvents(lines, i, projName, it, hostDir) ==
    IF i > Len(lines) THEN <<>>
    ELSE SpawnEvent(trim(lines[i]), projName, it, hostDir) \o SpawnEvents(lines, i + 1, projName, it, hostDir)

---------------------------------------------------------------------------
(* The world outside the process: the gists a fetch returns and the disk   *)
(* the process starts on.                                                   *)

DEFAULT_GIST_LINKS_ID == "9b32b03f207a191099137429051ebde8"

GIST_ID_LENGTH_SHORT == 20
GIST_ID_LENGTH_LONG == 32
GIST_ID_LENGTH_FULL == 40

InitGist == "58030e271595520d8787"
HostGist == "67d6c72fba8e07c4aeb8"
MediaGist == "e9f70c3f68e6c7a1a80c"
OutsideGist == "1ec54e10d44f87e0f20d"
UpdirGist == "abcdefabcdefabcdefab"

MixMd ==
    "# Mix Registry\n\n"
    \o " - [init](https://gist.github.com/gistlyn/" \o InitGist \o ") {} "
    \o Backtick \o "project,sharp" \o Backtick \o " Empty App\n"
    \o " - [my-addin](https://gist.github.com/mythz/" \o HostGist \o ") {to:\"$HOST\"} "
    \o Backtick \o "db" \o Backtick \o " Host files\n"
    \o " - [media](https://gist.github.com/gistlyn/" \o MediaGist \o ") "
    \o Backtick \o "ui" \o Backtick \o " Logo and package patch\n"
    \o " - [outside](https://gist.github.com/gistlyn/" \o OutsideGist \o ") A file by its path\n"
    \o " - [updir](https://gist.github.com/gistlyn/" \o UpdirGist \o ") {to:\"../up\"} Up\n"

File(name, content) == [name |-> name, content |-> content]

\* What the API returns for each gist: its files in order.
GistStore ==
    (DEFAULT_GIST_LINKS_ID :> <<File("mix.md", Text(MixMd))>>)
    @@ (InitGist :> <<File("_init", Text("# restore\nnpm install\nrm -rf /\nnpm i $(whoami)\n dotnet restore\ndotnet new MyApp")),
                      File("MyApp/Program.cs", Text("namespace MyApp;")),
                      File("README.md?", Text("My App"))>>)
    @@ (HostGist :> <<File("Configure.Db.cs", Text("class ConfigureDb")),
                      File("ServiceModel\\Hello.cs", Text("namespace MyApp.ServiceModel;"))>>)
    @@ (MediaGist :> <<File("wwwroot/logo.png|base64", Text("QQ==")),
                       File("package.json.patch",
                            PatchDoc(<<[op |-> "add", path |-> "/scripts/dev", value |-> "vite"]>>))>>)
    @@ (OutsideGist :> <<File("../escape.txt", Text("x"))>>)
    @@ (UpdirGist :> <<File("a.txt", Text("a"))>>)

DiskFresh ==
    [dirs |-> {"/", "/w", "/w/out", "/home", "/home/u"},
     files |-> ("/w/notes.txt" :> Text("notes"))]

DiskProject ==
    [dirs |-> {"/", "/w", "/w/out", "/w/Acme", "/w/Acme.ServiceModel", "/w/wwwroot", "/home", "/home/u"},
     files |-> ("/w/Acme/appsettings.json" :> Json(EmptyDoc))
               @@ ("/w/package.json" :> Json((<<"name">> :> "app") @@ EmptyDoc))
               @@ ("/w/README.md" :> Text("mine"))
               @@ ("/w/wwwroot/logo.png" :> Bytes("B"))
               @@ ("/escape.txt" :> Text("outside"))]

Disks == {DiskFresh, DiskProject}

\* The process-wide options parseArgs sets: -y sets silent and forceApproval
\* together, -out appends a slash.
OutDirs == {Null, "out/", "../out/"}

NameArgs == {Null, "Acme", "my-app"}

\* The identifier lists handed to a batch call.
Batches ==
    {<<"init">>, <<"my-addin">>, <<"media">>, <<"outside">>,
     <<"init", "media">>, <<"MyAddin", "nosuch", "init">>, <<"updir", "init">>,
     <<"media", "my-addin", "init">>,
     <<"2">>, <<OutsideGist>>, <<"https://gist.github.com/gistlyn/" \o MediaGist>>}

MaxCalls == 2

---------------------------------------------------------------------------
(* Identifier resolver *)

\* parseInt(alias, 10): the leading digits (values past six digits are kept
\* as they are: they only matter as "greater than the registry's length").
RECURSIVE DigitsValue(_, _, _)
DigitsValue(s, i, acc) ==
    IF i > Len(s) \/ ~IsDigit(At(s, i)) THEN acc
    ELSE DigitsValue(s, i + 1, IF acc > 99999 THEN acc ELSE acc * 10 + (LetterIndex(Digits, At(s, i)) - 1))

NaN == [nan |-> TRUE, num |-> 0]

SignedDigits(body, neg) ==
    IF Len(body) = 0 \/ ~IsDigit(At(body, 1)) THEN NaN
    ELSE [nan |-> FALSE, num |-> IF neg THEN 0 - DigitsValue(body, 1, 0) ELSE DigitsValue(body, 1, 0)]

StripSign(t) == IF StartsWith(t, "-") \/ StartsWith(t, "+") THEN SubSeq(t, 2, Len(t)) ELSE t

ParseTrimmed(t) == SignedDigits(StripSign(t), StartsWith(t, "-"))

parseInt(alias) == ParseTrimmed(TrimStart(alias))

\* if (!isNaN(num) && num > 0 && num <= links.length) return links[num - 1].name
NumericName(links, alias, n) ==
    IF ~n.nan /\ n.num > 0 /\ n.num <= Len(links) THEN links[n.num].name ELSE alias

\* One element of gistAliases.map(...) in "Resolve numeric aliases".
ResolveNumeric(links, alias) == NumericName(links, alias, parseInt(alias))

IsIdLength(n) == n = GIST_ID_LENGTH_SHORT \/ n = GIST_ID_LENGTH_LONG

FirstPartIsId(firstPart) == Len(firstPart) # GIST_ID_LENGTH_FULL /\ IsIdLength(Len(firstPart))

isGistId(str) ==
    IF Includes(str, "-") \/ Includes(str, ".") \/ Includes(str, ":") THEN FALSE
    ELSE IF Includes(str, "/") THEN FirstPartIsId(Split(str, "/")[1])
    ELSE IsIdLength(Len(str))

IsUrl(alias) == StartsWith(alias, "https://") \/ StartsWith(alias, "http://")

AliasKey(name) == toLowerCase(ReplaceAll(name, "-", ""))

AlwaysFirst(hits) == 1

\* links.find(...): the first position that matches, 0 for undefined.
FirstHit(hits) == IF hits = {} THEN 0 ELSE CHOOSE k \in hits : \A h \in hits : k <= h

\* findGistLink: the position of the first record with that name, or 0.
findGistLink(links, alias) ==
    FirstHit({k \in 1..Len(links) : AliasKey(links[k].name) = AliasKey(alias)})

GistUrlPrefix == "https://gist.github.com/"

ApiKey(key) == [ok |-> TRUE, key |-> key]

\* The gistId taken from the parts of a gist.github.com URL.
KeyOfParts(parts) ==
    IF Len(parts) = 3 THEN ApiKey(parts[2] \o "/" \o parts[3])
    ELSE IF Len(parts) = 2
    THEN ApiKey(IF IsIdLength(Len(parts[1])) THEN parts[1] \o "/" \o parts[2] ELSE parts[2])
    ELSE IF Len(parts) = 1 THEN ApiKey(parts[1])
    ELSE [ok |-> FALSE, key |-> ""]

\* getGistFiles: the key the API is asked for, or ok = FALSE for an invalid URL.
GistApiKey(gistIdOrUrl) ==
    IF ~Includes(gistIdOrUrl, "://") THEN ApiKey(gistIdOrUrl)
    ELSE IF StartsWith(gistIdOrUrl, GistUrlPrefix)
    THEN KeyOfParts(Split(SubSeq(gistIdOrUrl, Len(GistUrlPrefix) + 1, Len(gistIdOrUrl)), "/"))
    ELSE ApiKey(gistIdOrUrl)

\* The answer of the API for a key.
FilesOfKey(gistIdOrUrl, k) ==
    IF k.ok /\ k.key \in DOMAIN GistStore
    THEN [ok |-> TRUE, files |-> GistStore[k.key],
          url |-> IF Includes(gistIdOrUrl, "://") THEN gistIdOrUrl ELSE GistUrlPrefix \o gistIdOrUrl]
    ELSE [ok |-> FALSE, files |-> <<>>, url |-> gistIdOrUrl]

\* getGistFiles: the files, or ok = FALSE when the request fails.
getGistFiles(gistIdOrUrl) == FilesOfKey(gistIdOrUrl, GistApiKey(gistIdOrUrl))

RECURSIVE FileNamed(_, _, _)
FileNamed(bundle, name, i) ==
    IF i > Len(bundle) THEN Null
    ELSE IF bundle[i].name = name THEN bundle[i].content.text
    ELSE FileNamed(bundle, name, i + 1)

\* getGistApplyLinks: the records of mix.md in the registry gist.
getGistApplyLinks(gistLinksId) == parseGistLinks(FileNamed(getGistFiles(gistLinksId).files, "mix.md", 1))

Links == getGistApplyLinks(DEFAULT_GIST_LINKS_ID)

\* a || b for the values null and ''.
OrElse(a, b) == IF a # Null /\ a # "" THEN a ELSE b

Classified(kind, ref, hint, url) == [kind |-> kind, ref |-> ref, hint |-> hint, url |-> url]

\* const gistLink = findGistLink(links, gistAlias); if (!gistLink) ...
ClassifyFound(links, k) ==
    IF k = 0 THEN Classified("nomatch", "", Null, "")
    ELSE Classified("link", OrElse(links[k].gistId, links[k].url), links[k].to, links[k].url)

\* How applyGists and deleteGists read one identifier: the gist to fetch and
\* the location hint of its registry record.
Classify(links, alias) ==
    IF isGistId(alias) THEN Classified("id", alias, Null, alias)
    ELSE IF IsUrl(alias) THEN Classified("url", alias, Null, alias)
    ELSE ClassifyFound(links, findGistLink(links, alias))

---------------------------------------------------------------------------
(* writeGistFile: the resolution of a bundle's files, the confirmation,    *)
(* the initialization script and the writes                                *)

ResolvedFile(path, content, originalName) ==
    [path |-> path, content |-> content, originalName |-> originalName]

NoItem == [alias |-> "", ref |-> "", to |-> "", base |-> "", resolvedFiles |-> <<>>,
           hasInit |-> FALSE, initText |-> ""]

\* The rest of an iteration of the loop over Object.entries(files) once the
\* file's path is resolved: the file is skipped (noOverride and it exists) or
\* pushed.
PushResolved(fl, ds, file, resolvedFile, projName, acc) ==
    IF (preserve \/ EndsWith(file.name, "?")) /\ existsSync(fl, ds, resolvedFile) THEN acc
    ELSE [acc EXCEPT !.resolvedFiles =
                        Append(@, ResolvedFile(resolvedFile, ReplaceInContent(file.content, projName),
                                               file.name))]

\* One iteration past the checks that throw.
ResolveOne(fl, ds, file, to, base, projName, acc) ==
    IF file.name = "_init" THEN [acc EXCEPT !.hasInit = TRUE, !.initText = file.content.text]
    ELSE PushResolved(fl, ds, file, resolveFilePath(fl, ds, file.name, base, projName, to), projName, acc)

\* The loop over Object.entries(files): acc holds resolvedFiles and initFile,
\* and ok = FALSE with the error once an iteration has thrown.  Every
\* iteration calls resolveBasePath(to, exSuffix) on the same disk, so they
\* share its result.
RECURSIVE ResolveFilesFrom(_, _, _, _, _, _, _, _)
ResolveFilesFrom(fl, ds, bundle, i, to, basePath, projName, acc) ==
    IF i > Len(bundle) THEN acc
    ELSE IF Includes(bundle[i].name, "..") THEN [acc EXCEPT !.ok = FALSE, !.err = "Invalid file name"]
    ELSE IF ~basePath.ok THEN [acc EXCEPT !.ok = FALSE, !.err = basePath.err]
    ELSE ResolveFilesFrom(fl, ds, bundle, i + 1, to, basePath, projName,
                          ResolveOne(fl, ds, bundle[i], to, basePath.path, projName,
                                     [acc EXCEPT !.base = basePath.path]))

ResolveFiles(fl, ds, bundle, to, projName) ==
    ResolveFilesFrom(fl, ds, bundle, 1, to, resolveBasePath(fl, ds, to), projName,
                     [ok |-> TRUE, err |-> "", base |-> "", resolvedFiles |-> <<>>,
                      hasInit |-> FALSE, initText |-> ""])

AlwaysApproved(sil, force) == FALSE

PromptUnlessSilent(sil, force) == ~sil

\* if (!silent) { if (!forceApproval) { await promptYesNo(...) } }
NeedsPrompt(sil, force) == ~sil /\ ~force

\* How the confirmation of an identifier is decided, as the options stand.
ApprovalMode(sil, force) == IF sil THEN "silent" ELSE IF force THEN "forced" ELSE "interactive"

StraightToWrite(hasInit) == "applyWrite"

\* After the confirmation: "Execute _init file commands" when the bundle has
\* the script, then "Write files".
AfterConfirm(hasInit) == IF hasInit THEN "applyInit" ELSE "applyWrite"

\* The outcome of a step of the loop "Write files": the disk, the events, and
\* ok = FALSE when a call of fs has thrown.
Wrote(ok, fl, ds, events) == [ok |-> ok, files |-> fl, dirs |-> ds, events |-> events]

Without(fl, p) == [q \in (DOMAIN fl) \ {p} |-> fl[q]]

\* await patchJsonFile(patchTarget, filePath); fs.unlinkSync(filePath)
PatchAndUnlink(w, patched, patchTarget, filePath, it, base) ==
    IF ~patched.ok THEN Wrote(FALSE, patched.files, w.dirs, w.events)
    ELSE Wrote(TRUE, Without(patched.files, filePath), w.dirs,
               w.events \o <<Ev("patch", patchTarget, filePath, it, base),
                             Ev("unlink", filePath, "", it, base)>>)

PatchAlways(w, filePath, patchTarget, it, base) ==
    IF w.ok /\ EndsWith(filePath, ".json.patch")
    THEN PatchAndUnlink(w, patchJsonFile(w.files, w.dirs, patchTarget, filePath), patchTarget, filePath, it, base)
    ELSE w

\* "Handle JSON patches", after the write w of filePath.
HandlePatch(w, filePath, patchTarget, it, base) ==
    IF w.ok /\ EndsWith(filePath, ".json.patch") /\ existsSync(w.files, w.dirs, patchTarget)
    THEN PatchAndUnlink(w, patchJsonFile(w.files, w.dirs, patchTarget, filePath), patchTarget, filePath, it, base)
    ELSE w

\* fs.writeFileSync(filePath, content), after the mkdir m: it throws on a
\* directory and in a directory that is missing.
WriteFileSync(m, filePath, content, originalName, it, base) ==
    IF ~m.ok \/ filePath \in m.dirs \/ pathDirname(filePath) \notin m.dirs
    THEN Wrote(FALSE, m.files, m.dirs, m.events)
    ELSE Wrote(TRUE, (filePath :> content) @@ m.files, m.dirs,
               Append(m.events, Ev("write", filePath, originalName, it, base)))

\* if (!fs.existsSync(dir)) fs.mkdirSync(dir, { recursive: true }): it throws
\* when a file is in the way.
MakeDir(fl, ds, dir, it, base) ==
    IF existsSync(fl, ds, dir) THEN Wrote(TRUE, fl, ds, <<>>)
    ELSE IF \E a \in AncestorsAndSelf(dir) : a \in DOMAIN fl THEN Wrote(FALSE, fl, ds, <<>>)
    ELSE Wrote(TRUE, fl, ds \cup AncestorsAndSelf(dir), <<Ev("mkdir", dir, "", it, base)>>)

\* "Handle base64 encoded files": the path without the marker.
WrittenPath(path) == IF EndsWith(path, "|base64") THEN SubSeq(path, 1, Len(path) - 7) ELSE path

\* ... and the decoded buffer.
WrittenContent(path, content) ==
    IF EndsWith(path, "|base64") THEN Bytes(Base64Decode(content.text)) ELSE content

\* const patchTarget = filePath.slice(0, -6)
PatchTarget(filePath) == SubSeq(filePath, 1, Len(filePath) - 6)

WriteTo(fl, ds, file, filePath, it, base) ==
    HandlePatch(WriteFileSync(MakeDir(fl, ds, pathDirname(file.path), it, base),
                              filePath, WrittenContent(file.path, file.content), file.originalName, it, base),
                filePath, PatchTarget(filePath), it, base)

\* One iteration of the loop "Write files".
WriteOne(fl, ds, file, it, base) ==
    IF file.originalName = "_init" THEN Wrote(TRUE, fl, ds, <<>>)
    ELSE WriteTo(fl, ds, file, WrittenPath(file.path), it, base)

\* The outcome w of the loop so far followed by the outcome n of an iteration.
WriteNext(w, n) == Wrote(n.ok, n.files, n.dirs, w.events \o n.events)

\* The loop "Write files" from its i-th file on; w is the outcome so far.
RECURSIVE WriteFiles(_, _, _, _, _)
WriteFiles(w, resolvedFiles, i, it, base) ==
    IF i > Len(resolvedFiles) \/ ~w.ok THEN w
    ELSE WriteFiles(WriteNext(w, WriteOne(w.files, w.dirs, resolvedFiles[i], it, base)),
                    resolvedFiles, i + 1, it, base)

---------------------------------------------------------------------------
(* deleteGists: the files of a bundle found on disk, the unlinks and the   *)
(* removal of the folders left empty                                       *)

Found(path, it, base) == [path |-> path, item |-> it, base |-> base]

\* if (!fs.existsSync(resolvedFile)) continue; resolvedFiles.push(resolvedFile)
FoundIfExists(fl, ds, resolvedFile, it, base) ==
    IF existsSync(fl, ds, resolvedFile) THEN <<Found(resolvedFile, it, base)>> ELSE <<>>

\* for (const gistFile of Object.keys(gistFiles)): the files that exist.
RECURSIVE ExistingFiles(_, _, _, _, _, _, _, _)
ExistingFiles(fl, ds, bundle, i, basePath, projName, to, it) ==
    IF i > Len(bundle) THEN <<>>
    ELSE FoundIfExists(fl, ds, resolveFilePath(fl, ds, bundle[i].name, basePath, projName, to), it, basePath)
         \o ExistingFiles(fl, ds, bundle, i + 1, basePath, projName, to, it)

NeverEmpty(all) == FALSE

\* if (allResolvedFiles.length === 0)
NoFilesFound(all) == Len(all) = 0

\* folders.add(path.dirname(file))
AddFolder(folders, d) == IF \E k \in 1..Len(folders) : folders[k] = d THEN folders ELSE Append(folders, d)

\* fs.unlinkSync(file); folders.add(...), in the outcome u of the loop so far.
\* unlinkSync throws on a path that is not a file (a directory, a file already
\* deleted) and then the folder is not recorded.
UnlinkOne(u, found) ==
    IF found.path \in DOMAIN u.files
    THEN [files |-> Without(u.files, found.path),
          events |-> Append(u.events, Ev("delete", found.path, "", found.item, found.base)),
          folders |-> AddFolder(u.folders, pathDirname(found.path))]
    ELSE u

\* The loop over allResolvedFiles.
RECURSIVE UnlinkAll(_, _, _)
UnlinkAll(u, all, i) == IF i > Len(all) THEN u ELSE UnlinkAll(UnlinkOne(u, all[i]), all, i + 1)

\* The first of the longest folders.
LongestFirst(folders) ==
    CHOOSE k \in 1..Len(folders) :
        /\ \A h \in 1..Len(folders) : Len(folders[h]) <= Len(folders[k])
        /\ \A h \in 1..(k - 1) : Len(folders[h]) < Len(folders[k])

DropAt(seq, k) == SubSeq(seq, 1, k - 1) \o SubSeq(seq, k + 1, Len(seq))

\* [...folders].sort((a, b) => b.length - a.length): longest first, and in the
\* order of insertion among folders of one length.
RECURSIVE SortByLength(_)
MoveFirst(folders, k) == <<folders[k]>> \o SortByLength(DropAt(folders, k))

SortByLength(folders) == IF Len(folders) = 0 THEN <<>> ELSE MoveFirst(folders, LongestFirst(folders))

\* fs.rmSync(p, { recursive: false }): a file is removed; on a directory it
\* throws (EISDIR) and on a missing path it throws (ENOENT).
rmSync(fl, ds, p) ==
    IF p \in DOMAIN fl THEN [ok |-> TRUE, files |-> Without(fl, p), dirs |-> ds]
    ELSE [ok |-> FALSE, files |-> fl, dirs |-> ds]

Cleaned(fl, ds, events) == [files |-> fl, dirs |-> ds, events |-> events]

\* One iteration of "Delete empty folders" in the outcome e of the loop so
\* far; r is what rmSync does to the folder.  readdirSync throws on a path that
\* is not a directory; every error is ignored.
RemoveIfEmpty(e, folder, r) ==
    IF folder \in e.dirs /\ readdirSync(e.files, e.dirs, folder) = {}
    THEN Cleaned(r.files, r.dirs,
                 Append(e.events, Ev("rmdir", folder, IF r.ok THEN "removed" ELSE "threw", 0, "")))
    ELSE e

\* The loop "Delete empty folders".
RECURSIVE RemoveEmptyFolders(_, _, _)
RemoveEmptyFolders(e, sortedFolders, i) ==
    IF i > Len(sortedFolders) THEN e
    ELSE RemoveEmptyFolders(RemoveIfEmpty(e, sortedFolders[i], rmSync(e.files, e.dirs, sortedFolders[i])),
                            sortedFolders, i + 1)

---------------------------------------------------------------------------
(* The apply and delete pipelines.  A run makes up to MaxCalls calls of    *)
(* applyGists and deleteGists, each with the identifiers and the name of   *)
(* the run; the disk and the options persist from call to call.  What the  *)
(* spawned commands do to the disk is not part of the model.               *)

IdleParse == pDoc = <<>> /\ pLinks = <<>> /\ pDone = FALSE

IdleSubst == sText = "" /\ sName = "" /\ sOut = <<>>

IdlePatch == jFiles = <<>> /\ jPatches = <<>> /\ jOut = <<>>

IdleCalls ==
    /\ silent = FALSE /\ forceApproval = FALSE /\ preserve = FALSE
    /\ outDir = Null /\ projectName = Null
    /\ files = DiskFresh.files /\ dirs = DiskFresh.dirs
    /\ gistAliases = <<>> /\ pc = "idle" /\ resolvedAliases = <<>> /\ idx = 0
    /\ callName = "" /\ item = NoItem /\ allResolvedFiles = <<>>
    /\ files0 = DiskFresh.files /\ dirs0 = DiskFresh.dirs
    /\ options0 = <<FALSE, FALSE, FALSE, Null, Null, <<>>>>
    /\ trace = <<>> /\ history = <<>>

Init ==
    /\ silent \in BOOLEAN
    /\ forceApproval = silent
    /\ preserve \in BOOLEAN
    /\ outDir \in OutDirs
    /\ projectName \in NameArgs
    /\ replaceTokens = <<>>
    /\ \E d \in Disks : files = d.files /\ dirs = d.dirs /\ files0 = d.files /\ dirs0 = d.dirs
    /\ gistAliases \in Batches
    /\ pc = "idle" /\ resolvedAliases = <<>> /\ idx = 0
    /\ callName = "" /\ item = NoItem /\ allResolvedFiles = <<>>
    /\ options0 = Options
    /\ trace = <<>> /\ history = <<>>
    /\ IdleParse
    /\ IdleSubst
    /\ IdlePatch

\* What stays as it is while a call goes on.
callFrame == <<gistAliases, resolvedAliases, callName, files0, dirs0, options0, history>>

\* The call returns or throws: its record joins the history.
Return(op, result, outcome, fl, ds, tr) ==
    /\ history' = Append(history, [op |-> op, result |-> result, outcome |-> outcome, trace |-> tr,
                                   filesBefore |-> files0, dirsBefore |-> dirs0,
                                   filesAfter |-> fl, dirsAfter |-> ds])
    /\ trace' = tr
    /\ files' = fl
    /\ dirs' = ds
    /\ pc' = "idle"
    /\ idx' = 0
    /\ resolvedAliases' = <<>>
    /\ item' = NoItem
    /\ allResolvedFiles' = <<>>
    /\ UNCHANGED <<gistAliases, callName, files0, dirs0, options0>>

\* The start of a call: projName || path.basename(process.cwd()), the
\* registry, "Resolve numeric aliases".
Call(op) ==
    /\ Len(history) < MaxCalls
    /\ callName' = OrElse(projectName, pathBasename(cwd))
    /\ resolvedAliases' = [k \in 1..Len(gistAliases) |-> ResolveNumeric(Links, gistAliases[k])]
    /\ idx' = 1
    /\ pc' = op
    /\ item' = NoItem
    /\ allResolvedFiles' = <<>>
    /\ files0' = files
    /\ dirs0' = dirs
    /\ options0' = Options
    /\ trace' = <<Ev("call", op, "", 0, "")>>
    /\ UNCHANGED <<optionVars, replaceTokens, diskVars, gistAliases, history, parseVars, substVars, patchVars>>

CallApply ==
    /\ pc = "idle"
    /\ Call("apply")

\* The events that open the work on an identifier: the gist that is fetched
\* and the location hint that goes to resolveBasePath.
Begin(gistAlias, fetched, to) ==
    <<Ev("begin", gistAlias, ApprovalMode(silent, forceApproval), idx, ""),
      Ev("fetch", fetched, "", idx, ""),
      Ev("hint", to, "", idx, "")>>

\* "Display files and prompt for approval": the call waits for the answer, or
\* goes on when none is asked for.
Confirm(gistAlias, gistIdOrUrl, to, r, asks) ==
    /\ item' = [alias |-> gistAlias, ref |-> gistIdOrUrl, to |-> to, base |-> r.base,
                resolvedFiles |-> r.resolvedFiles, hasInit |-> r.hasInit, initText |-> r.initText]
    /\ pc' = IF asks THEN "applyPrompt" ELSE AfterConfirm(r.hasInit)
    /\ trace' = trace \o Begin(gistAlias, gistIdOrUrl, to)
                   \o (IF asks THEN <<Ev("prompt", gistAlias, "", idx, r.base)>> ELSE <<>>)
    /\ UNCHANGED <<diskVars, idx, allResolvedFiles, callFrame>>

\* writeGistFile once the files of the bundle g are resolved (r).
WriteResolved(gistIdOrUrl, gistAlias, to, g, r) ==
    IF ~g.ok THEN Return("apply", "threw", "fetch", files, dirs, trace \o Begin(gistAlias, gistIdOrUrl, to))
    ELSE IF ~r.ok THEN Return("apply", "threw", r.err, files, dirs, trace \o Begin(gistAlias, gistIdOrUrl, to))
    ELSE Confirm(gistAlias, gistIdOrUrl, to, r, NeedsPrompt(silent, forceApproval))

\* writeGistFile once getGistFiles has answered (g).
WriteFetched(gistIdOrUrl, gistAlias, to, projName, g) ==
    WriteResolved(gistIdOrUrl, gistAlias, to, g, ResolveFiles(files, dirs, g.files, to, projName))

\* writeGistFile(gistIdOrUrl, gistAlias, to, projName) up to the confirmation.
writeGistFile(gistIdOrUrl, gistAlias, to, projName) ==
    WriteFetched(gistIdOrUrl, gistAlias, to, sanitizeProjectName(projName), getGistFiles(gistIdOrUrl))

\* The body of the loop of applyGists for an identifier read as c.
ApplyAlias(gistAlias, c) ==
    IF c.kind = "id"
    THEN writeGistFile(GistUrlPrefix \o gistAlias, gistAlias, OrElse(outDir, "."), callName)
    ELSE IF c.kind = "url"
    THEN writeGistFile(gistAlias, gistAlias, OrElse(outDir, "."), callName)
    ELSE IF c.kind = "nomatch"
    THEN Return("apply", "false", "nomatch", files, dirs, Append(trace, Ev("nomatch", gistAlias, "", idx, "")))
    ELSE writeGistFile(c.ref, gistAlias, OrElse(outDir, OrElse(c.hint, ".")), callName)

\* One iteration of the loop of applyGists up to the confirmation inside
\* writeGistFile: the identifier is classified, its bundle fetched and its
\* files resolved.
ApplyItem ==
    /\ pc = "apply"
    /\ ApplyAlias(resolvedAliases[idx], Classify(Links, resolvedAliases[idx]))
    /\ UNCHANGED <<optionVars, replaceTokens, parseVars, substVars, patchVars>>

\* The answer to promptYesNo in writeGistFile.
ApplyAnswer ==
    /\ pc = "applyPrompt"
    /\ \E approved \in BOOLEAN :
          IF approved
          THEN /\ pc' = AfterConfirm(item.hasInit)
               /\ trace' = Append(trace, Ev("approved", item.alias, "", idx, item.base))
               /\ UNCHANGED <<diskVars, idx, item, allResolvedFiles, callFrame>>
          ELSE Return("apply", "threw", "cancelled", files, dirs,
                      Append(trace, Ev("declined", item.alias, "", idx, item.base)))
    /\ UNCHANGED <<optionVars, replaceTokens, parseVars, substVars, patchVars>>

\* The loop over the lines of _init, run in hostDir.
RunInit(hostDir) ==
    IF ~hostDir.ok THEN Return("apply", "threw", hostDir.err, files, dirs, trace)
    ELSE /\ pc' = "applyWrite"
         /\ trace' = Append(trace, Ev("init", "_init", "", idx, hostDir.path))
                        \o SpawnEvents(Split(item.initText, "\n"), 1,
                                       sanitizeProjectName(callName), idx, hostDir.path)
         /\ UNCHANGED <<diskVars, idx, item, allResolvedFiles, callFrame>>

\* "Execute _init file commands"
ApplyInit ==
    /\ pc = "applyInit"
    /\ RunInit(resolveBasePath(files, dirs, item.to))
    /\ UNCHANGED <<optionVars, replaceTokens, parseVars, substVars, patchVars>>

\* The return of writeGistFile after the writes w, forceApproval = true, and
\* the next iteration of applyGists or its return.
AfterWrites(w, applied) ==
    IF ~w.ok
    THEN /\ Return("apply", "threw", "fs", w.files, w.dirs, trace \o w.events)
         /\ UNCHANGED forceApproval
    ELSE IF idx = Len(resolvedAliases)
    THEN /\ Return("apply", "true", "", w.files, w.dirs, Append(trace \o w.events, applied))
         /\ forceApproval' = TRUE
    ELSE /\ forceApproval' = TRUE
         /\ idx' = idx + 1
         /\ pc' = "apply"
         /\ item' = NoItem
         /\ files' = w.files
         /\ dirs' = w.dirs
         /\ trace' = Append(trace \o w.events, applied)
         /\ UNCHANGED <<allResolvedFiles, callFrame>>

\* "Write files" and what follows it.
ApplyWrite ==
    /\ pc = "applyWrite"
    /\ AfterWrites(WriteFiles(Wrote(TRUE, files, dirs, <<>>), item.resolvedFiles, 1, idx, item.base),
                   Ev("applied", item.alias, "", idx, item.base))
    /\ UNCHANGED <<silent, preserve, outDir, projectName, replaceTokens, parseVars, substVars, patchVars>>

CallDelete ==
    /\ pc = "idle"
    /\ Call("delete")

\* After the loop over the identifiers: the test for "no files" and the
\* confirmation.
DeleteConfirm(all, tr, asks) ==
    IF NoFilesFound(all) THEN Return("delete", "false", "nofiles", files, dirs, tr)
    ELSE /\ allResolvedFiles' = all
         /\ pc' = IF asks THEN "deletePrompt" ELSE "deleteFiles"
         /\ trace' = tr \o (IF asks THEN <<Ev("prompt", "", "", 0, "")>> ELSE <<>>)
         /\ UNCHANGED <<diskVars, idx, item, callFrame>>

ConfirmEach(all, tr) ==
    DeleteConfirm(all, Append(tr, Ev("resolved", "", "", 0, "")), NeedsPrompt(silent, forceApproval))

\* The end of an iteration that found the files `all` so far.
DeleteNext(all, tr) ==
    IF idx < Len(resolvedAliases)
    THEN /\ idx' = idx + 1
         /\ allResolvedFiles' = all
         /\ trace' = tr
         /\ UNCHANGED <<diskVars, pc, item, callFrame>>
    ELSE DeleteConfirm(all, Append(tr, Ev("resolved", "", "", 0, "")), NeedsPrompt(silent, forceApproval))

\* An iteration once getGistFiles has answered (g) and the base is resolved.
DeleteResolved(to, g, basePath, tr) ==
    IF ~g.ok THEN Return("delete", "threw", "fetch", files, dirs, tr)
    ELSE IF ~basePath.ok THEN Return("delete", "threw", basePath.err, files, dirs, tr)
    ELSE DeleteNext(allResolvedFiles
                       \o ExistingFiles(files, dirs, g.files, 1, basePath.path, callName, to, idx),
                    tr)

\* An iteration for the gist `fetched` and the location `to`.
DeleteGist(gistAlias, fetched, to) ==
    DeleteResolved(to, getGistFiles(fetched), resolveBasePath(files, dirs, to),
                   trace \o Begin(gistAlias, fetched, to))

\* The body of the loop of deleteGists for an identifier read as c.
DeleteAlias(gistAlias, c) ==
    IF c.kind \in {"id", "url"} THEN DeleteGist(gistAlias, gistAlias, ".")
    ELSE IF c.kind = "nomatch"
    THEN Return("delete", "false", "nomatch", files, dirs, Append(trace, Ev("nomatch", gistAlias, "", idx, "")))
    ELSE DeleteGist(gistAlias, c.ref, OrElse(c.hint, "."))

\* One iteration of the loop of deleteGists over the identifiers, and after
\* the last one the test for "no files" and the confirmation.
DeleteItem ==
    /\ pc = "delete"
    /\ DeleteAlias(resolvedAliases[idx], Classify(Links, resolvedAliases[idx]))
    /\ UNCHANGED <<optionVars, replaceTokens, parseVars, substVars, patchVars>>

\* The answer to promptYesNo in deleteGists.
DeleteAnswer ==
    /\ pc = "deletePrompt"
    /\ \E approved \in BOOLEAN :
          IF approved
          THEN /\ pc' = "deleteFiles"
               /\ trace' = Append(trace, Ev("approved", "", "", 0, ""))
               /\ UNCHANGED <<diskVars, idx, item, allResolvedFiles, callFrame>>
          ELSE Return("delete", "threw", "cancelled", files, dirs,
                      Append(trace, Ev("declined", "", "", 0, "")))
    /\ UNCHANGED <<optionVars, replaceTokens, parseVars, substVars, patchVars>>

\* The return of deleteGists after the unlinks u and the clean-up e.
Deleted(u, e) == Return("delete", "true", "", e.files, e.dirs, trace \o u.events \o e.events)

\* "Delete empty folders" after the unlinks u.
Unlinked(u) == Deleted(u, RemoveEmptyFolders(Cleaned(u.files, dirs, <<>>), SortByLength(u.folders), 1))

\* The unlinks, "Delete empty folders" and the return of deleteGists.
DeleteFiles ==
    /\ pc = "deleteFiles"
    /\ Unlinked(UnlinkAll([files |-> files, events |-> <<>>, folders |-> <<>>], allResolvedFiles, 1))
    /\ UNCHANGED <<optionVars, replaceTokens, parseVars, substVars, patchVars>>

Next ==
    \/ CallApply
    \/ ApplyItem
    \/ ApplyAnswer
    \/ ApplyInit
    \/ ApplyWrite
    \/ CallDelete
    \/ DeleteItem
    \/ DeleteAnswer
    \/ DeleteFiles

Spec == Init /\ [][Next]_vars

---------------------------------------------------------------------------
(* The registry parser on its own: a document of up to MaxLines lines is   *)
(* handed to parseGistLinks.                                               *)

MaxLines == 3

\* Lines of the form - [name](url) ..., with the name and the url they carry,
\* whether a backtick block follows the modifiers, and the tags written in it.
BulletLines ==
    {[line |-> " - [init](https://gist.github.com/gistlyn/" \o InitGist \o ") {} "
                  \o Backtick \o "project,sharp" \o Backtick \o " Empty App",
      name |-> "init", url |-> "https://gist.github.com/gistlyn/" \o InitGist,
      block |-> TRUE, tags |-> <<"project", "sharp">>],
     [line |-> "- [repo](https://github.com/mythz/repo) {to:\"$HOST\"} Repository",
      name |-> "repo", url |-> "https://github.com/mythz/repo",
      block |-> FALSE, tags |-> <<>>],
     [line |-> "    - [gist](https://gist.github.com/mythz/abc123) " \o Backtick \o Backtick \o " Description",
      name |-> "gist", url |-> "https://gist.github.com/mythz/abc123",
      block |-> TRUE, tags |-> <<>>],
     [line |-> "- [site](https://example.org/gistlyn/x)",
      name |-> "site", url |-> "https://example.org/gistlyn/x",
      block |-> FALSE, tags |-> <<>>],
     [line |-> "- [blazor](https://github.com/user/repo) {} " \o Backtick \o "ui" \o Backtick \o " Blazor template",
      name |-> "blazor", url |-> "https://github.com/user/repo",
      block |-> TRUE, tags |-> <<"ui">>],
     [line |-> "- [db](https://gist.github.com/gistlyn/abc123) " \o Backtick \o " db , lite,," \o Backtick,
      name |-> "db", url |-> "https://gist.github.com/gistlyn/abc123",
      block |-> TRUE, tags |-> <<"db", "lite">>],
     [line |-> "- [late](https://example.org/a/b) See " \o Backtick \o "x" \o Backtick,
      name |-> "late", url |-> "https://example.org/a/b",
      block |-> FALSE, tags |-> <<>>]}

\* Lines that are not of that form.
OtherLines == {"", "# Mix Registry", "Some text with a [link](https://x.org)", "- plain item",
               "* [star](https://x.org/a/b)", "- [broken](", "[bare](https://x.org/a/b)"}

SampleLines == {b.line : b \in BulletLines} \cup OtherLines

\* The documents of up to n lines.
DocsUpTo(n) == UNION {[1..k -> SampleLines] : k \in 0..n}

InitParse ==
    /\ IdleCalls
    /\ IdleSubst
    /\ IdlePatch
    /\ replaceTokens = <<>>
    /\ pDoc \in DocsUpTo(MaxLines)
    /\ pLinks = <<>>
    /\ pDone = FALSE

\* const links = parseGistLinks(md)
Parse ==
    /\ ~pDone
    /\ pLinks' = parseGistLinks(Join(pDoc, "\n"))
    /\ pDone' = TRUE
    /\ UNCHANGED <<pDoc, optionVars, replaceTokens, diskVars, callVars, substVars, patchVars>>

NextParse == Parse

SpecParse == InitParse /\ [][NextParse]_vars

---------------------------------------------------------------------------
(* Token substitution on its own: replaceMyApp is applied to a text and    *)
(* then to its own result.                                                 *)

Placeholders == <<"My_App", "MyApp", "My App", "my-app", "myapp", "my_app">>

MaxPieces == 2

TextPieces == {"My_App", "MyApp", "My App", "my-app", "myapp", "my_app",
               "m", "x", "My", "App", "\r"}

ExtendTexts(texts) == texts \cup {t \o p : t \in texts, p \in TextPieces}

\* The texts of up to n pieces.
RECURSIVE TextsOf(_)
TextsOf(n) == IF n = 0 THEN {""} ELSE ExtendTexts(TextsOf(n - 1))

ProjectNames == {"Zen", "fooBar", "y_app", "XmyAppX", "My_App", "Acme.Web", "Sam"}

\* The pairs of parseArgs' -replace term=replacement.
TokenLists == {<<>>, <<<<"x", "xx">>>>}

InitSubst ==
    /\ IdleCalls
    /\ IdleParse
    /\ IdlePatch
    /\ replaceTokens \in TokenLists
    /\ sText \in TextsOf(MaxPieces)
    /\ sName \in ProjectNames
    /\ sOut = <<>>

\* replaceMyApp(input, projName), on the text and then on the last result.
Substitute ==
    /\ Len(sOut) < 2
    /\ sOut' = Append(sOut, replaceMyApp(IF sOut = <<>> THEN sText ELSE sOut[Len(sOut)], sName))
    /\ UNCHANGED <<sText, sName, optionVars, replaceTokens, diskVars, callVars, parseVars, patchVars>>

NextSubst == Substitute

SpecSubst == InitSubst /\ [][NextSubst]_vars

---------------------------------------------------------------------------
(* JSON patch on its own: two patch documents are written next to a target *)
(* and handed to patchJsonFile one after the other.                        *)

MaxOps == 2

TargetFile == "/w/package.json"

PatchFile == "/w/package.json.patch"

PatchDirs == {"/", "/w"}

\* The target is absent, {}, {"a":{"b":"old","c":"keep"}} or {"s":"text","a":{}}.
TargetDisks ==
    {<<>>,
     (TargetFile :> Json(EmptyDoc)),
     (TargetFile :> Json((<<"a">> :> ObjectMark) @@ (<<"a", "b">> :> "old") @@ (<<"a", "c">> :> "keep")
                         @@ EmptyDoc)),
     (TargetFile :> Json((<<"s">> :> "text") @@ (<<"a">> :> ObjectMark) @@ EmptyDoc))}

Pointers == {"/a", "/a/b", "/s/b", "/x/y/z", "/constructor/b"}

Op(op, path, value) == [op |-> op, path |-> path, value |-> value]

SampleOps ==
    {Op("add", p, "1") : p \in Pointers}
        \cup {Op("remove", p, Undefined) : p \in Pointers}
        \cup {Op("replace", "/a/b", "2"), Op("test", "/a/b", "old"), Op("test", "/x/y/z", "1")}

\* The patch documents of up to n operations.
PatchDocsUpTo(n) == UNION {[1..k -> SampleOps] : k \in 0..n}

InitPatch ==
    /\ IdleCalls
    /\ IdleParse
    /\ IdleSubst
    /\ replaceTokens = <<>>
    /\ jFiles \in TargetDisks
    /\ jPatches \in {<<first, second>> : first \in PatchDocsUpTo(MaxOps), second \in PatchDocsUpTo(1)}
    /\ jOut = <<>>

\* The disk after the first k patches.
PatchDisk(k) == IF k = 0 THEN jFiles ELSE jOut[k].files

\* fs.writeFileSync(filePath, content) of the patch document and
\* await patchJsonFile(patchTarget, filePath)
WriteAndPatch(fl, ops) == patchJsonFile((PatchFile :> PatchDoc(ops)) @@ fl, PatchDirs, TargetFile, PatchFile)

ApplyPatch ==
    /\ Len(jOut) < Len(jPatches)
    /\ jOut' = Append(jOut, WriteAndPatch(PatchDisk(Len(jOut)), jPatches[Len(jOut) + 1]))
    /\ UNCHANGED <<jFiles, jPatches, optionVars, replaceTokens, diskVars, callVars, parseVars, substVars>>

NextPatch == ApplyPatch

SpecPatch == InitPatch /\ [][NextPatch]_vars

---------------------------------------------------------------------------
(* Properties of the apply and delete pipelines (Spec)                     *)

\* The positions in a trace of the events of some kinds.
Events(tr, kinds) == {j \in 1..Len(tr) : tr[j].ev \in kinds}

\* What a call does beyond reading: scripts, commands and changes of the disk.
SideEffects == {"init", "spawn", "mkdir", "write", "patch", "unlink"}

IsApplyTrace(tr) == Len(tr) > 0 /\ tr[1].ev = "call" /\ tr[1].arg = "apply"

\* The paths a finished apply wrote that were not on disk before it and are after it.
CreatedBy(rec) ==
    ({rec.trace[j].arg : j \in Events(rec.trace, {"write"})} \cap DOMAIN rec.filesAfter)
        \ DOMAIN rec.filesBefore

\* C1: round trip.  After an apply that went through and a delete of the same
\* identifiers and name that went through right after it, under the same
\* options, none of the files the apply created is left on disk.
C1_RoundTrip ==
    \A k \in 1..(Len(history) - 1) :
        (/\ history[k].op = "apply" /\ history[k].result = "true"
         /\ history[k + 1].op = "delete" /\ history[k + 1].result = "true")
            => CreatedBy(history[k]) \cap DOMAIN history[k + 1].filesAfter = {}

\* The identifier at position it is applied with neither silent nor forceApproval set.
Interactive(tr, it) ==
    \E b \in Events(tr, {"begin"}) : tr[b].item = it /\ tr[b].detail = "interactive"

ApprovedBefore(tr, j) == \E i \in 1..(j - 1) : tr[i].ev = "approved" /\ tr[i].item = tr[j].item

\* C2: the confirmation gates every side effect of apply.  For an identifier
\* applied with neither silent nor forceApproval set, no script is processed,
\* no command spawned, no directory made and no file written before the answer
\* yes; after the answer no the call has thrown the cancellation, nothing of
\* the identifier has happened and no later identifier has been touched.
C2_ConfirmationGates ==
    IsApplyTrace(trace) =>
        /\ \A j \in Events(trace, SideEffects) :
              Interactive(trace, trace[j].item) => ApprovedBefore(trace, j)
        /\ \A j \in Events(trace, {"declined"}) :
              /\ j = Len(trace)
              /\ pc = "idle"
              /\ history # <<>>
              /\ history[Len(history)].result = "threw"
              /\ history[Len(history)].outcome = "cancelled"
              /\ \A i \in Events(trace, SideEffects) : trace[i].item < trace[j].item
              /\ \A i \in 1..Len(trace) : trace[i].item <= trace[j].item

\* An identifier was confirmed with yes and a file of it written afterwards.
C2_Witness ==
    /\ IsApplyTrace(trace)
    /\ \E j \in Events(trace, {"write"}) :
          Interactive(trace, trace[j].item) /\ ApprovedBefore(trace, j)

\* The bundle fetched by that reference holds the entry _init.
HasInitEntry(ref) ==
    \E k \in 1..Len(getGistFiles(ref).files) : getGistFiles(ref).files[k].name = "_init"

ItemHasInit(tr, it) ==
    \E j \in Events(tr, {"fetch"}) : tr[j].item = it /\ HasInitEntry(tr[j].arg)

InitEventsOf(tr, it) == {i \in Events(tr, {"init"}) : tr[i].item = it}

\* C3: for a bundle with the entry _init, _init is never written as a file,
\* its script is processed exactly once when the bundle is applied, and all its
\* commands have run before the first file of the bundle is written.
C3_InitOnceBeforeWrites ==
    IsApplyTrace(trace) =>
        /\ \A j \in Events(trace, {"write"}) :
              trace[j].detail # "_init" /\ pathBasename(trace[j].arg) # "_init"
        /\ \A j \in Events(trace, {"applied"}) :
              ItemHasInit(trace, trace[j].item) => Cardinality(InitEventsOf(trace, trace[j].item)) = 1
        /\ \A j \in Events(trace, {"begin"}) : Cardinality(InitEventsOf(trace, trace[j].item)) <= 1
        /\ \A i \in Events(trace, {"init", "spawn"}) :
              \A j \in Events(trace, {"mkdir", "write", "patch", "unlink"}) :
                  trace[i].item = trace[j].item => i < j

\* A bundle with _init has been applied: a command was spawned and a file written.
C3_Witness ==
    /\ IsApplyTrace(trace)
    /\ \E j \in Events(trace, {"applied"}) :
          /\ ItemHasInit(trace, trace[j].item)
          /\ \E i \in Events(trace, {"spawn"}) : trace[i].item = trace[j].item
          /\ \E i \in Events(trace, {"write"}) : trace[i].item = trace[j].item

\* C4: every path written by apply or deleted by delete is an absolute path
\* inside the base directory resolved for its identifier.
C4_InsideBase ==
    \A j \in Events(trace, {"write", "delete"}) :
        StartsWith(trace[j].arg, "/") /\ InsideDir(trace[j].arg, trace[j].base)

\* The tools and the characters the sandbox is said to allow and to reject.
ClaimedPrefixes == <<"npm ", "yarn ", "pnpm ", "nuget ", "dotnet ", "flutter ", "dart ", "kamal ">>

ClaimedIllegal == <<"\"", "'", "&", ";", "$", "@", "|">>

\* The lines of the script _init of the bundle fetched by that reference.
InitLines(ref) == Split(FileNamed(getGistFiles(ref).files, "_init", 1), "\n")

ScriptHasLine(tr, it, line) ==
    \E j \in Events(tr, {"fetch"}) :
        /\ tr[j].item = it
        /\ HasInitEntry(tr[j].arg)
        /\ \E k \in 1..Len(InitLines(tr[j].arg)) : InitLines(tr[j].arg)[k] = line

\* C5: every spawned line starts with an allowed tool and a space, is no
\* comment and holds none of the characters " ' & ; $ @ |; so rm -rf / and a
\* line with $(whoami) are never spawned, and npm install is whenever the
\* script that holds it is processed.
C5_SandboxSafety ==
    /\ \A j \in Events(trace, {"spawn"}) :
          /\ \E k \in 1..Len(ClaimedPrefixes) : StartsWith(trace[j].arg, ClaimedPrefixes[k])
          /\ ~StartsWith(trace[j].arg, "#")
          /\ \A k \in 1..Len(ClaimedIllegal) : ~Includes(trace[j].arg, ClaimedIllegal[k])
          /\ trace[j].arg # "rm -rf /"
          /\ ~Includes(trace[j].arg, "$(whoami)")
    /\ \A j \in Events(trace, {"init"}) :
          ScriptHasLine(trace, trace[j].item, "npm install")
              => \E i \in Events(trace, {"spawn"}) :
                    i > j /\ trace[i].item = trace[j].item /\ trace[i].arg = "npm install"

\* A script holding rm -rf /, a line with $(whoami) and npm install has been
\* processed and npm install spawned.
C5_Witness ==
    \E j \in Events(trace, {"init"}) :
        /\ ScriptHasLine(trace, trace[j].item, "rm -rf /")
        /\ ScriptHasLine(trace, trace[j].item, "npm i $(whoami)")
        /\ \E i \in Events(trace, {"spawn"}) : trace[i].arg = "npm install"

\* The destination hint deleteGists uses for an identifier read as c.
DeleteHint(c) == IF c.kind = "link" THEN OrElse(c.hint, ".") ELSE "."

\* A file of the bundle of the identifier exists at its resolved path on the disk fl, ds.
TargetExists(fl, ds, c, alias) ==
    ExistingFiles(fl, ds, getGistFiles(IF c.kind = "link" THEN c.ref ELSE alias).files, 1,
                  resolveBasePath(fl, ds, DeleteHint(c)).path, callName, DeleteHint(c), 0) # <<>>

\* Every identifier of the finished delete was resolved and none of the
\* resolved files was on the disk the call started on.
NoneExists(rec) ==
    /\ Events(rec.trace, {"resolved"}) # {}
    /\ \A j \in Events(rec.trace, {"begin"}) :
          ~TargetExists(rec.filesBefore, rec.dirsBefore, Classify(Links, rec.trace[j].arg), rec.trace[j].arg)

\* C6: a delete of identifiers none of whose resolved files exists reports
\* "no files found", asks for no confirmation and leaves the files and the
\* directories as they were.
C6_NothingToDelete ==
    \A k \in 1..Len(history) :
        (history[k].op = "delete" /\ NoneExists(history[k])) =>
            /\ history[k].result = "false"
            /\ history[k].outcome = "nofiles"
            /\ Events(history[k].trace, {"prompt", "approved", "declined", "delete", "rmdir"}) = {}
            /\ history[k].filesAfter = history[k].filesBefore
            /\ history[k].dirsAfter = history[k].dirsBefore

\* A delete of two resolved identifiers found none of their files.
C6_Witness ==
    \E k \in 1..Len(history) :
        /\ history[k].op = "delete"
        /\ NoneExists(history[k])
        /\ Cardinality(Events(history[k].trace, {"begin"})) = 2
        /\ history[k].outcome = "nofiles"

\* C7: with preserve set, or for a bundle file named with a trailing ?, a file
\* that exists at the path that is written has the same content after the
\* apply as before it.
C7_NotOverwritten ==
    \A k \in 1..Len(history) :
        history[k].op = "apply" =>
            \A j \in Events(history[k].trace, {"write"}) :
                (/\ preserve \/ EndsWith(history[k].trace[j].detail, "?")
                 /\ history[k].trace[j].arg \in DOMAIN history[k].filesBefore)
                    => /\ history[k].trace[j].arg \in DOMAIN history[k].filesAfter
                       /\ history[k].filesAfter[history[k].trace[j].arg]
                             = history[k].filesBefore[history[k].trace[j].arg]

---------------------------------------------------------------------------
(* Properties of the registry parser (SpecParse)                           *)

\* The bullet line a line of a document is, if it is one.
IsBullet(line) == \E b \in BulletLines : b.line = line

BulletOf(line) == CHOOSE b \in BulletLines : b.line = line

\* The <<name, url>> pairs a document's bullet lines carry, in source order.
RECURSIVE ExpectedPairs(_)
ExpectedPairs(doc) ==
    IF Len(doc) = 0 THEN <<>>
    ELSE (IF IsBullet(doc[1]) THEN <<(<<BulletOf(doc[1]).name, BulletOf(doc[1]).url>>)>> ELSE <<>>)
         \o ExpectedPairs(Tail(doc))

ParsedPairs == [k \in 1..Len(pLinks) |-> <<pLinks[k].name, pLinks[k].url>>]

\* C8: the parser preserves order and count.  For a document of bullet lines
\* - [name](url) ... interleaved with other lines, the records are exactly the
\* names and urls of the bullet lines, one record per bullet line, in source
\* order; the empty document and a document without bullet lines give no record.
C8_OrderAndCount ==
    pDone =>
        /\ ParsedPairs = ExpectedPairs(pDoc)
        /\ ((\A k \in 1..Len(pDoc) : ~IsBullet(pDoc[k])) => pLinks = <<>>)

\* Two different bullet lines around a line that is none have been parsed.
C8_Witness ==
    /\ pDone
    /\ Len(pDoc) = 3
    /\ IsBullet(pDoc[1]) /\ ~IsBullet(pDoc[2]) /\ IsBullet(pDoc[3])
    /\ pDoc[1] # pDoc[3]
    /\ Len(pLinks) = 2

\* The author segment of a URL: the first segment of its path.
AuthorOf(url) == SecondOf(Split(SubSeq(url, Len("https://") + 1, Len(url)), "/"))

\* C9: every parsed record whose URL has the author segment gistlyn or mythz
\* has the user ServiceStack, for a gist URL and for a repository URL alike.
C9_AuthorNormalized ==
    pDone =>
        \A k \in 1..Len(pLinks) :
            (StartsWith(pLinks[k].url, "https://") /\ AuthorOf(pLinks[k].url) \in {"gistlyn", "mythz"})
                => pLinks[k].user = "ServiceStack"

---------------------------------------------------------------------------
(* Properties of the token substitution (SpecSubst)                        *)

ContainsPlaceholder(s) == \E k \in 1..Len(Placeholders) : Includes(s, Placeholders[k])

\* C10 as stated: with no term pairs and a project name that contains none of
\* the six placeholder spellings, substituting the result again changes nothing.
C10_Idempotent ==
    (Len(sOut) = 2 /\ replaceTokens = <<>> /\ ~ContainsPlaceholder(sName)) => sOut[2] = sOut[1]

\* The six texts a placeholder is replaced by.
FormsOf(name) ==
    {name, ReplaceAll(name, "_", ""), splitPascalCase(ReplaceAll(name, "_", "")),
     camelToKebab(ReplaceAll(name, "_", "")), toLowerCase(ReplaceAll(name, "_", "")), toLowerCase(name)}

\* The placeholder p laid over the form f at some offset agrees with it on
\* every character they share: p can begin, end or lie inside f, or hold it.
Overlaps(f, p) ==
    \E d \in (1 - Len(p))..(Len(f) - 1) :
        \A i \in 1..Len(f) : (i - d >= 1 /\ i - d <= Len(p)) => At(f, i) = At(p, i - d)

\* A project name whose forms are inserted as they are and can never make
\* up a placeholder with the text around them.
SafeName(name) ==
    /\ ~Includes(name, "$")
    /\ ~Includes(name, "\r")
    /\ \A f \in FormsOf(name) :
          /\ f # ""
          /\ \A k \in 1..Len(Placeholders) : ~Overlaps(f, Placeholders[k])

\* C10 as amended: with no term pairs, a text without carriage returns and a
\* project name without $ or carriage return whose six forms are not empty
\* and overlap no placeholder spelling, substituting the result again changes
\* nothing.
C10_IdempotentSafe ==
    (Len(sOut) = 2 /\ replaceTokens = <<>> /\ ~Includes(sText, "\r") /\ SafeName(sName))
        => sOut[2] = sOut[1]

\* A safe name has been substituted twice into a text that holds a placeholder.
C10_Witness ==
    /\ Len(sOut) = 2
    /\ replaceTokens = <<>>
    /\ ~Includes(sText, "\r")
    /\ SafeName(sName)
    /\ ContainsPlaceholder(sText)
    /\ sOut[1] # sText

---------------------------------------------------------------------------
(* Properties of the JSON patch (SpecPatch)                                *)

\* The segments k1, ..., kn of the pointer of an operation.
SegmentsOf(op) == NonEmpty(Split(op.path, "/"))

\* The target document on a disk ({} when the file is absent).
DocOn(fl) == IF TargetFile \in DOMAIN fl THEN fl[TargetFile].doc ELSE EmptyDoc

\* The pointers of the intermediate segments, the root included.
Intermediates(segs) == {SubSeq(segs, 1, k) : k \in 0..(Len(segs) - 1)}

\* The pointers of the members of the object at q.
MembersAt(doc, q) == {r \in DOMAIN doc : Len(r) = Len(q) + 1 /\ IsPrefixSeq(q, r)}

\* after has an object at every intermediate segment, an empty one but for
\* the next segment where before had none, and the value at the last key.
AddedTo(before, after, segs, value) ==
    /\ \A q \in Intermediates(segs) : q \in DOMAIN after /\ after[q] = ObjectMark
    /\ \A q \in Intermediates(segs) \ DOMAIN before : MembersAt(after, q) = {SubSeq(segs, 1, Len(q) + 1)}
    /\ segs \in DOMAIN after
    /\ after[segs] = value

\* after is before without the last key (and what it held).
RemovedFrom(before, after, segs) ==
    /\ DOMAIN after = {q \in DOMAIN before : ~IsPrefixSeq(segs, q)}
    /\ \A q \in DOMAIN after : after[q] = before[q]

IsSet(op) == op.op \in {"add", "replace"}

IsRemoveOf(op, path) == op.op = "remove" /\ op.path = path

\* C11: an add or replace of a pointer /k1/.../kn goes through, creates an
\* empty object at each missing intermediate segment and sets the last key to
\* the value; a remove of the same pointer that follows it deletes only the
\* last key and keeps the intermediates.  The operations of one document are
\* applied in document order: after add then remove the key is absent, after
\* remove then add it has the value.
C11_AddThenRemove ==
    \A k \in 1..Len(jOut) :
        /\ (Len(jPatches[k]) = 1 /\ IsSet(jPatches[k][1])) =>
              /\ jOut[k].ok
              /\ AddedTo(DocOn(PatchDisk(k - 1)), DocOn(jOut[k].files),
                         SegmentsOf(jPatches[k][1]), jPatches[k][1].value)
              /\ (/\ k < Len(jOut)
                  /\ Len(jPatches[k + 1]) = 1
                  /\ IsRemoveOf(jPatches[k + 1][1], jPatches[k][1].path)) =>
                    /\ jOut[k + 1].ok
                    /\ RemovedFrom(DocOn(jOut[k].files), DocOn(jOut[k + 1].files),
                                   SegmentsOf(jPatches[k][1]))
        /\ (/\ Len(jPatches[k]) = 2
            /\ IsSet(jPatches[k][1])
            /\ IsRemoveOf(jPatches[k][2], jPatches[k][1].path)) =>
              /\ jOut[k].ok
              /\ SegmentsOf(jPatches[k][1]) \notin DOMAIN DocOn(jOut[k].files)
        /\ (/\ Len(jPatches[k]) = 2
            /\ IsSet(jPatches[k][2])
            /\ IsRemoveOf(jPatches[k][1], jPatches[k][2].path)) =>
              /\ jOut[k].ok
              /\ SegmentsOf(jPatches[k][2]) \in DOMAIN DocOn(jOut[k].files)
              /\ DocOn(jOut[k].files)[SegmentsOf(jPatches[k][2])] = jPatches[k][2].value

---------------------------------------------------------------------------
(* Further properties of the apply and delete pipelines (Spec)             *)

\* Location hints that hold .. : relative, absolute, under $HOST and $HOME,
\* with and without a trailing slash, an -out value, a Windows path.
TraversalHints ==
    {"..", "../up", "up/..", "wwwroot/../", "a/../b/", "../out/", "/srv/../etc", "/w/../",
     "$HOST/..", "$HOST/../x/", "$HOME/..", "$HOME/../x", "C:\\..\\x", "a..b"}

\* What changes the disk or runs a command in either pipeline.
Mutations == SideEffects \cup {"delete", "rmdir"}

\* C12: destination resolution throws the invalid-location error for every
\* location hint that holds .. and returns no path; an identifier whose hint
\* (the -out value, else the hint of its registry record) holds .. ends the
\* apply or delete call with an error, and nothing is run, written or deleted
\* for it.
C12_TraversalRejected ==
    /\ \A to \in TraversalHints :
          /\ resolveBasePath(files, dirs, to) = Thrown("Invalid location")
          /\ ~resolveBasePath(files, dirs, to).ok
    /\ \A j \in Events(trace, {"hint"}) :
          Includes(trace[j].arg, "..") =>
              /\ j = Len(trace)
              /\ pc = "idle"
              /\ history # <<>>
              /\ history[Len(history)].result = "threw"
              /\ history[Len(history)].outcome \in {"Invalid location", "Invalid file name", "fetch"}
              /\ \A i \in Events(trace, Mutations) : trace[i].item # trace[j].item
              /\ (trace[1].arg = "delete" => Events(trace, Mutations) = {})

\* With an -out value that holds .., an apply and a delete have thrown the
\* invalid-location error and left the disk as it was.
C12_Witness ==
    /\ outDir # Null
    /\ Includes(outDir, "..")
    /\ \E a \in 1..Len(history) : \E d \in 1..Len(history) :
          /\ history[a].op = "apply" /\ history[a].outcome = "Invalid location"
          /\ history[d].op = "delete" /\ history[d].outcome = "Invalid location"
          /\ \E j \in Events(history[a].trace, {"hint"}) : history[a].trace[j].arg = outDir
          /\ \E j \in Events(history[d].trace, {"hint"}) : Includes(history[d].trace[j].arg, "..")
          /\ history[a].filesAfter = history[a].filesBefore
          /\ history[d].filesAfter = history[d].filesBefore

\* An identifier that is no raw id, no URL and the name of no registry record.
Unmatched(alias) ==
    /\ ~isGistId(alias)
    /\ ~IsUrl(alias)
    /\ \A k \in 1..Len(Links) : AliasKey(Links[k].name) # AliasKey(alias)

\* The path written by the event j of the trace is not unlinked later in it.
KeptInTrace(tr, j) == \A u \in Events(tr, {"unlink"}) : u < j \/ tr[u].arg # tr[j].arg

\* C14: applyGists aborts at the first unmatched alias.  An identifier without
\* a registry record is never fetched; at it the call returns false, nothing of
\* it or of a later identifier is fetched, run or written, and what the earlier
\* identifiers wrote is still on disk.
C14_AbortAtUnmatched ==
    IsApplyTrace(trace) =>
        /\ \A j \in Events(trace, {"begin"}) : ~Unmatched(trace[j].arg)
        /\ \A j \in Events(trace, {"nomatch"}) :
              /\ Unmatched(trace[j].arg)
              /\ j = Len(trace)
              /\ pc = "idle"
              /\ history # <<>>
              /\ history[Len(history)].result = "false"
              /\ history[Len(history)].outcome = "nomatch"
              /\ history[Len(history)].filesAfter = files
              /\ \A i \in 1..(j - 1) : trace[i].item < trace[j].item
              /\ \A i \in Events(trace, {"write"}) : KeptInTrace(trace, i) => trace[i].arg \in DOMAIN files
              /\ \A i \in Events(trace, {"mkdir"}) : trace[i].arg \in dirs

\* An apply has written the files of its first identifier and returned false
\* at its second, which has no registry record; a third was never begun.
C14_Witness ==
    /\ IsApplyTrace(trace)
    /\ Len(gistAliases) = 3
    /\ \E j \in Events(trace, {"nomatch"}) :
          /\ trace[j].item = 2
          /\ \E i \in Events(trace, {"write"}) :
                trace[i].item = 1 /\ trace[i].arg \in DOMAIN files /\ trace[i].arg \notin DOMAIN files0
    /\ history[Len(history)].result = "false"

\* The outcomes of a call that are a NotFound error: an unmatched alias, a
\* missing host marker, a missing target directory or file.
NotFoundOutcomes == {"nomatch", "NotFound: host project", "NotFound: directory", "NotFound: file"}

\* The position in the batch of the identifier a finished call ended at.
LastItem(rec) == rec.trace[Len(rec.trace)].item

ItemsBegun(rec) == {rec.trace[j].item : j \in Events(rec.trace, {"begin"})}

\* C15 as stated: a NotFound error on an identifier that is not the first and
\* not the only one of an apply batch aborts that identifier alone, and the
\* identifiers after it are applied.
C15_OnlyItemAborted ==
    \A k \in 1..Len(history) :
        (/\ history[k].op = "apply"
         /\ history[k].outcome \in NotFoundOutcomes
         /\ LastItem(history[k]) > 1)
            => \A it \in (LastItem(history[k]) + 1)..Len(gistAliases) : it \in ItemsBegun(history[k])

\* A file under the working directory is one of the host markers.
IsHostMarker(f) ==
    \/ pathBasename(f) \in {"appsettings.json", "Web.config", "App.config", "Startup.cs", "Program.cs"}
    \/ EndsWith(f, ".csproj")

\* C15 as amended: a NotFound error on an identifier of an apply batch, the
\* first or a later one, ends the whole call: for an unmatched alias
\* applyGists returns false, for a missing host marker, directory or file the
\* error is thrown out of it; nothing is written for that identifier and no
\* identifier after it is begun.  An identifier with the hint $HOST is not
\* applied while the disk has no host marker.
C15_NotFoundAbortsBatch ==
    /\ \A k \in 1..Len(history) :
          (history[k].op = "apply" /\ history[k].outcome \in NotFoundOutcomes) =>
              /\ history[k].result = (IF history[k].outcome = "nomatch" THEN "false" ELSE "threw")
              /\ \A j \in 1..Len(history[k].trace) : history[k].trace[j].item <= LastItem(history[k])
              /\ \A j \in Events(history[k].trace, Mutations \cup {"applied"}) :
                    history[k].trace[j].item < LastItem(history[k])
    /\ IsApplyTrace(trace) =>
          \A j \in Events(trace, {"hint"}) :
              (StartsWith(trace[j].arg, "$HOST") /\ ~\E f \in DOMAIN files : IsHostMarker(f)) =>
                  /\ \A i \in Events(trace, Mutations \cup {"applied", "prompt"}) : trace[i].item # trace[j].item
                  /\ pc = "idle"
                  /\ history[Len(history)].outcome = "NotFound: host project"

\* An apply of three identifiers wrote the files of the first, threw at the
\* second for the missing host marker and never began the third.
C15_Witness ==
    \E k \in 1..Len(history) :
        /\ history[k].op = "apply"
        /\ history[k].outcome = "NotFound: host project"
        /\ Len(gistAliases) = 3
        /\ LastItem(history[k]) = 2
        /\ \E j \in Events(history[k].trace, {"write"}) : history[k].trace[j].item = 1
        /\ 3 \notin ItemsBegun(history[k])

\* The identifier at position it was begun in that approval mode.
BegunAs(tr, it, mode) == \E b \in Events(tr, {"begin"}) : tr[b].item = it /\ tr[b].detail = mode

\* C16: in an apply batch at most one confirmation is asked for, and only for
\* the first identifier; once the first identifier is applied every later one
\* is begun with forceApproval set and written without a prompt; a batch
\* started in silent or force mode asks for none.
C16_AutoApproval ==
    IsApplyTrace(trace) =>
        /\ Cardinality(Events(trace, {"prompt"})) <= 1
        /\ \A j \in Events(trace, {"prompt", "approved", "declined"}) : trace[j].item = 1
        /\ \A j \in Events(trace, {"begin"}) :
              trace[j].item > 1 =>
                  /\ trace[j].detail # "interactive"
                  /\ \E a \in Events(trace, {"applied"}) : a < j /\ trace[a].item = 1
        /\ (~BegunAs(trace, 1, "interactive")) => Events(trace, {"prompt"}) = {}

\* The first identifier was confirmed and applied and a file of the second
\* was written with no second prompt.
C16_Witness ==
    /\ IsApplyTrace(trace)
    /\ BegunAs(trace, 1, "interactive")
    /\ BegunAs(trace, 2, "forced")
    /\ Cardinality(Events(trace, {"prompt"})) = 1
    /\ \E j \in Events(trace, {"write"}) : trace[j].item = 2

\* C17: the options are read-only during the pipeline.  When applyGists or
\* deleteGists has returned or thrown, silent, forceApproval, preserve, outDir,
\* projectName and replaceTokens have the values they had when it was called.
C17_ConfigReadOnly == (pc = "idle" /\ history # <<>>) => Options = options0

\* The token is, as a whole, a decimal numeral.
IsNumeral(s) == Len(s) > 0 /\ \A i \in 1..Len(s) : IsDigit(At(s, i))

\* ... and a position of the registry.
IsIndex(s, links) == IsNumeral(s) /\ DigitsValue(s, 1, 0) >= 1 /\ DigitsValue(s, 1, 0) <= Len(links)

\* What the claim has the numeric-index substitution make of a token.
ClaimedAlias(s, links) == IF IsIndex(s, links) THEN links[DigitsValue(s, 1, 0)].name ELSE s

\* C18: a token is replaced by the name of the registry record i only when it
\* is, as a whole, a positive integer i within the registry's length; every
\* other token is left as it is, and a token that is a raw content id, one
\* that begins with digits included, is fetched by its canonical URL.
C18_NumericIndexOnly ==
    /\ pc # "idle" =>
          \A k \in 1..Len(gistAliases) : resolvedAliases[k] = ClaimedAlias(gistAliases[k], Links)
    /\ \A j \in Events(trace, {"fetch"}) :
          (trace[j].item \in 1..Len(gistAliases) /\ isGistId(gistAliases[trace[j].item])
           /\ ~IsIndex(gistAliases[trace[j].item], Links))
              => trace[j].arg \in {gistAliases[trace[j].item], GistUrlPrefix \o gistAliases[trace[j].item]}

IsDeleteTrace(tr) == Len(tr) > 0 /\ tr[1].ev = "call" /\ tr[1].arg = "delete"

\* Every identifier of the batch was begun before the position p of the trace.
AllBegunBefore(tr, p) ==
    \A it \in 1..Len(gistAliases) : \E b \in Events(tr, {"begin"}) : b < p /\ tr[b].item = it

\* C19: a delete batch called with neither silent nor forceApproval set asks
\* for one combined confirmation, after the paths of all its identifiers are
\* resolved and before the first file is deleted (none is asked for when no
\* file was found); declined, the call throws the cancellation and removes no
\* file and no directory.  At an unmatched alias the call returns false
\* before anything is deleted.
C19_DeleteConfirmation ==
    IsDeleteTrace(trace) =>
        /\ (~options0[1] /\ ~options0[2]) =>
              /\ Cardinality(Events(trace, {"prompt"})) <= 1
              /\ \A p \in Events(trace, {"prompt"}) :
                    /\ AllBegunBefore(trace, p)
                    /\ trace[p - 1].ev = "resolved"
                    /\ \A j \in Events(trace, {"delete", "rmdir"}) : p < j
              /\ \A r \in Events(trace, {"resolved"}) :
                    \/ r < Len(trace) /\ trace[r + 1].ev = "prompt"
                    \/ r = Len(trace) /\ pc = "idle" /\ history[Len(history)].outcome = "nofiles"
              /\ \A j \in Events(trace, {"delete", "rmdir"}) :
                    \E a \in Events(trace, {"approved"}) : a < j
              /\ \A j \in Events(trace, {"declined"}) :
                    /\ j = Len(trace)
                    /\ pc = "idle"
                    /\ history[Len(history)].result = "threw"
                    /\ history[Len(history)].outcome = "cancelled"
                    /\ Events(trace, {"delete", "rmdir"}) = {}
                    /\ files = files0
                    /\ dirs = dirs0
        /\ \A j \in Events(trace, {"nomatch"}) :
              /\ j = Len(trace)
              /\ pc = "idle"
              /\ history[Len(history)].result = "false"
              /\ Events(trace, {"delete", "rmdir", "prompt"}) = {}
              /\ files = files0
              /\ dirs = dirs0

\* A delete of two identifiers asked once, after both were resolved, was
\* answered yes and deleted a file.
C19_Witness ==
    /\ IsDeleteTrace(trace)
    /\ ~options0[1] /\ ~options0[2]
    /\ Len(gistAliases) = 2
    /\ Cardinality(Events(trace, {"prompt"})) = 1
    /\ \E p \in Events(trace, {"prompt"}) : AllBegunBefore(trace, p)
    /\ Events(trace, {"approved"}) # {}
    /\ Events(trace, {"delete"}) # {}

\* The directories that directly held a file the finished call deleted.
TouchedDirs(rec) == {pathDirname(rec.trace[j].arg) : j \in Events(rec.trace, {"delete"})}

\* C20: after a delete that went through, no directory that directly held a
\* deleted file is left empty, and a directory that still has an entry is not
\* removed.
C20_EmptyDirsRemoved ==
    \A k \in 1..Len(history) :
        (history[k].op = "delete" /\ history[k].result = "true") =>
            /\ \A d \in TouchedDirs(history[k]) :
                  d \in history[k].dirsAfter
                      => readdirSync(history[k].filesAfter, history[k].dirsAfter, d) # {}
            /\ \A d \in history[k].dirsBefore \ history[k].dirsAfter :
                  \A f \in DOMAIN history[k].filesAfter : ~InsideDir(f, d)

\* The write events of a trace whose path ends in .json.patch.
PatchWrites(tr) == {j \in Events(tr, {"write"}) : EndsWith(tr[j].arg, ".json.patch")}

\* The path p is on disk when the event j of the call happens: it was there
\* when the call started or an earlier event of the call wrote it.
OnDiskAt(rec, j, p) ==
    \/ p \in (DOMAIN rec.filesBefore) \cup rec.dirsBefore
    \/ \E i \in Events(rec.trace, {"write"}) : i < j /\ rec.trace[i].arg = p

\* The patch events of a trace that apply the patch file p.
PatchesOf(tr, p) == {i \in Events(tr, {"patch"}) : tr[i].detail = p}

\* The operations of the sampled patch file, which hold no placeholder.
SampledPatchOps == GistStore[MediaGist][2].content.ops

\* The call left the patch file p alone: it is on disk afterwards as the patch
\* document, nothing was patched from it and the target was not created.
PatchSkipped(rec, p) ==
    /\ p \in DOMAIN rec.filesAfter
    /\ rec.filesAfter[p].kind = "patch"
    /\ PatchesOf(rec.trace, p) = {}
    /\ PatchTarget(p) \notin (DOMAIN rec.filesAfter) \cup rec.dirsAfter

\* The call applied the patch file p written at event j to its target and
\* deleted p: the target holds what it held and the values of the operations.
PatchApplied(rec, j, p) ==
    /\ j + 2 <= Len(rec.trace)
    /\ rec.trace[j + 1].ev = "patch"
    /\ rec.trace[j + 1].arg = PatchTarget(p)
    /\ rec.trace[j + 1].detail = p
    /\ rec.trace[j + 2].ev = "unlink"
    /\ rec.trace[j + 2].arg = p
    /\ p \notin DOMAIN rec.filesAfter
    /\ PatchTarget(p) \in DOMAIN rec.filesAfter
    /\ rec.filesAfter[PatchTarget(p)].kind = "json"
    /\ \A q \in DOMAIN rec.filesBefore[PatchTarget(p)].doc :
          /\ q \in DOMAIN rec.filesAfter[PatchTarget(p)].doc
          /\ rec.filesAfter[PatchTarget(p)].doc[q] = rec.filesBefore[PatchTarget(p)].doc[q]
    /\ \A n \in 1..Len(SampledPatchOps) :
          AddedTo(rec.filesBefore[PatchTarget(p)].doc, rec.filesAfter[PatchTarget(p)].doc,
                  SegmentsOf(SampledPatchOps[n]), SampledPatchOps[n].value)

\* C21: when apply writes a file whose path ends in .json.patch and the target
\* (the path without .patch) is not on disk at that moment, the patch file
\* stays on disk, no operation of it is applied and the target is not created;
\* when the target is on disk, the operations are applied to it and the patch
\* file is deleted, so it is not on disk when the call ends.
C21_PatchTargetMissing ==
    \A k \in 1..Len(history) :
        history[k].op = "apply" =>
            \A j \in PatchWrites(history[k].trace) :
                IF OnDiskAt(history[k], j, PatchTarget(history[k].trace[j].arg))
                THEN PatchApplied(history[k], j, history[k].trace[j].arg)
                ELSE PatchSkipped(history[k], history[k].trace[j].arg)

\* An apply that went through wrote a patch file whose target was missing.
C21_Witness ==
    \E k \in 1..Len(history) :
        /\ history[k].op = "apply"
        /\ history[k].result = "true"
        /\ \E j \in PatchWrites(history[k].trace) :
              ~OnDiskAt(history[k], j, PatchTarget(history[k].trace[j].arg))

---------------------------------------------------------------------------
(* Further properties of the JSON patch (SpecPatch)                        *)

IsRecognized(op) == op.op \in {"add", "replace", "remove"}

\* The patch document without its operations of an unrecognized kind.
RECURSIVE RecognizedOnly(_)
RecognizedOnly(ops) ==
    IF Len(ops) = 0 THEN <<>>
    ELSE (IF IsRecognized(ops[1]) THEN <<ops[1]>> ELSE <<>>) \o RecognizedOnly(Tail(ops))

\* C22: an operation whose kind is none of add, replace, remove is ignored:
\* a patch gives the target document that the patch without its unrecognized
\* operations gives on the same disk, and a patch of unrecognized operations
\* only leaves the document as it was, with no intermediate object created.
C22_UnrecognizedIgnored ==
    \A k \in 1..Len(jOut) :
        /\ jOut[k].ok = WriteAndPatch(PatchDisk(k - 1), RecognizedOnly(jPatches[k])).ok
        /\ DocOn(jOut[k].files) = DocOn(WriteAndPatch(PatchDisk(k - 1), RecognizedOnly(jPatches[k])).files)
        /\ RecognizedOnly(jPatches[k]) = <<>> => DocOn(jOut[k].files) = DocOn(PatchDisk(k - 1))

---------------------------------------------------------------------------
(* Further properties of the registry parser (SpecParse)                   *)

\* The bullet lines of a document, in source order.
RECURSIVE BulletsIn(_)
BulletsIn(doc) ==
    IF Len(doc) = 0 THEN <<>>
    ELSE (IF IsBullet(doc[1]) THEN <<BulletOf(doc[1])>> ELSE <<>>) \o BulletsIn(Tail(doc))

\* The tags of a record are null, or a non-empty list of trimmed, non-empty
\* strings: the tags written in the backtick block of its line b, in order;
\* and they are null exactly when the line has no backtick block.
TagsAsClaimed(link, b) ==
    /\ link.tagsNull <=> ~b.block
    /\ ~link.tagsNull =>
          /\ link.tags # <<>>
          /\ link.tags = b.tags
          /\ \A t \in 1..Len(link.tags) : link.tags[t] # "" /\ trim(link.tags[t]) = link.tags[t]

TagsOfRecords(links, bullets) ==
    Len(links) = Len(bullets) => \A k \in 1..Len(links) : TagsAsClaimed(links[k], bullets[k])

\* C13: the tags of every parsed record are null or a non-empty list of
\* trimmed, non-empty strings in source order, null exactly when the line has
\* no backtick block, and never an empty list, also for an empty backtick block.
C13_TagsInvariant == pDone => TagsOfRecords(pLinks, BulletsIn(pDoc))

\* The same without the demand that the list is not empty.
TagsNullOrList(link, b) ==
    /\ link.tagsNull <=> ~b.block
    /\ ~link.tagsNull =>
          /\ link.tags = b.tags
          /\ \A t \in 1..Len(link.tags) : link.tags[t] # "" /\ trim(link.tags[t]) = link.tags[t]

\* C13 as amended: the tags of every parsed record are null or a list of
\* trimmed, non-empty strings in source order, null exactly when the line has
\* no backtick block; a backtick block that holds no tag gives the empty list.
C13_TagsNullOrList ==
    pDone =>
        /\ Len(pLinks) = Len(BulletsIn(pDoc))
        /\ \A k \in 1..Len(pLinks) : TagsNullOrList(pLinks[k], BulletsIn(pDoc)[k])

\* A line with an empty backtick block, a line whose tags need trimming and a
\* line without a backtick block have been parsed.
C13_Witness ==
    /\ pDone
    /\ Len(pLinks) = 3
    /\ ~pLinks[1].tagsNull /\ pLinks[1].tags = <<>>
    /\ pLinks[2].tags = <<"db", "lite">>
    /\ pLinks[3].tagsNull
    /\ \E k \in 1..Len(pDoc) : Includes(pDoc[k], " db , lite,,")

====
